---- MODULE Spec2Model ----
(***************************************************************************)
(* Clause extraction and scoring engine of the vendor contract risk        *)
(* assessment tool: ContractAnalyzer (risk_assessor.py) and ContractScorer *)
(* (scoring_algorithm.py).                                                 *)
(*                                                                         *)
(* Texts are TLA+ strings; substring containment, lower-casing, the        *)
(* regular-expression split and the length filters are computed on the     *)
(* characters.  Points are integers in hundredths of a point (12.5 points  *)
(* is 1250), multipliers are in hundredths (0.7 is 70), penalties in       *)
(* two-hundredths (a Medium clause of multiplier 0.3 has penalty 0.15,     *)
(* which is 30 two-hundredths).                                            *)
(*                                                                         *)
(* Operators keep the names of the source.  A parameter whose source name  *)
(* is also the name of a state variable of this module carries a trailing  *)
(* underscore (text_, clauses_): TLC resolves a name that is bound to no   *)
(* value as a variable.                                                    *)
(***************************************************************************)
EXTENDS Integers, Sequences, FiniteSets, TLC

CLAUSE_CATEGORIES ==
  <<
    [ category |-> "data_portability",
      keywords |->
        <<"data export", "data portability", "data migration", "export data", "data transfer", "download data", "retrieve data", "data extraction", "data backup", "api access", "bulk export", "data ownership", "portable format", "standard format", "data retrieval">>,
      negative_keywords |->
        <<"no obligation to provide", "may not export", "cannot export", "prohibit export", "restrict export", "no portability", "proprietary format only", "no api access", "limited export">>,
      required_phrases |->
        <<"export", "portability", "migration", "api", "retrieval">> ],
    [ category |-> "pricing_terms",
      keywords |->
        <<"pricing", "fees", "payment", "cost", "subscription", "charges", "price increase", "rate change", "fee change", "pricing change", "billing", "invoice", "payment terms", "price adjustment", "renewal fee", "price lock", "pricing guarantee", "price modification">>,
      negative_keywords |->
        <<"increase prices", "raise fees", "modify pricing", "change fees", "at our discretion", "sole discretion", "without notice", "unilateral", "at any time", "right to change", "may increase">>,
      required_phrases |->
        <<"pric", "fee", "cost", "payment", "subscription">> ],
    [ category |-> "support_obligations",
      keywords |->
        <<"support", "technical support", "customer support", "assistance", "help desk", "support hours", "support availability", "support level", "maintenance", "updates", "patches", "bug fixes", "response time", "support tier", "support plan", "customer service", "service availability">>,
      negative_keywords |->
        <<"no support", "no obligation to support", "may discontinue support", "at our discretion", "no guarantee", "best effort", "as is", "no commitment", "may suspend", "right to discontinue">>,
      required_phrases |->
        <<"support", "maintenance", "assistance", "service">> ],
    [ category |-> "termination_exit",
      keywords |->
        <<"termination", "terminate", "cancel", "cancellation", "exit", "end of term", "contract end", "notice period", "termination fee", "early termination", "wind down", "transition", "off-boarding", "data deletion", "account closure", "suspension", "renewal">>,
      negative_keywords |->
        <<"termination fee", "penalty", "early termination fee", "cannot terminate", "must continue", "auto-renew", "automatic renewal", "no refund", "immediately delete", "forfeit", "early cancellation fee">>,
      required_phrases |->
        <<"terminat", "cancel", "exit", "renewal", "end">> ],
    [ category |-> "service_level",
      keywords |->
        <<"sla", "service level", "uptime", "availability", "performance", "guarantee", "commitment", "downtime", "credits", "compensation", "reliability", "service credit", "remedies", "service performance", "service guarantee", "warranty", "service quality">>,
      negative_keywords |->
        <<"no sla", "no guarantee", "best effort", "as is", "no warranty", "sole remedy", "exclusive remedy", "no liability", "no compensation", "service credits only", "as available", "without warranty">>,
      required_phrases |->
        <<"sla", "uptime", "availability", "guarantee", "service level">> ]
  >>
LOCK_IN_PATTERNS ==
  <<
    [ category |-> "data_portability",
      mechanisms |-> <<
         [ mechanism |-> "data_restriction", patterns |-> <<"proprietary format", "no export", "cannot export", "restrict">> ],
         [ mechanism |-> "no_api_access", patterns |-> <<"no api", "limited api", "no programmatic access">> ],
         [ mechanism |-> "export_restriction", patterns |-> <<"export restriction", "limited export", "no bulk export">> ] >> ],
    [ category |-> "pricing_terms",
      mechanisms |-> <<
         [ mechanism |-> "price_increase_risk", patterns |-> <<"increase", "raise", "adjust", "modify">> ],
         [ mechanism |-> "unilateral_pricing", patterns |-> <<"sole discretion", "unilateral", "at our discretion", "right to change">> ],
         [ mechanism |-> "no_notice_changes", patterns |-> <<"without notice", "immediate effect", "no advance notice">> ],
         [ mechanism |-> "automatic_renewal", patterns |-> <<"auto-renew", "automatic renewal", "automatically renew">> ] >> ],
    [ category |-> "support_obligations",
      mechanisms |-> <<
         [ mechanism |-> "no_support_guarantee", patterns |-> <<"no support", "no obligation", "no guarantee">> ],
         [ mechanism |-> "discontinuation_risk", patterns |-> <<"may discontinue", "right to discontinue", "suspend">> ],
         [ mechanism |-> "no_commitment", patterns |-> <<"best effort", "no commitment", "as is">> ] >> ],
    [ category |-> "termination_exit",
      mechanisms |-> <<
         [ mechanism |-> "exit_fees", patterns |-> <<"termination fee", "early termination", "cancellation fee">> ],
         [ mechanism |-> "cancellation_penalty", patterns |-> <<"penalty", "forfeit", "early cancellation">> ],
         [ mechanism |-> "automatic_renewal", patterns |-> <<"auto-renew", "automatic renewal", "automatically renew">> ] >> ],
    [ category |-> "service_level",
      mechanisms |-> <<
         [ mechanism |-> "no_sla", patterns |-> <<"no sla", "no service level">> ],
         [ mechanism |-> "no_compensation", patterns |-> <<"no compensation", "no liability", "sole remedy">> ],
         [ mechanism |-> "no_guarantee", patterns |-> <<"no guarantee", "best effort", "as is", "without warranty">> ],
         [ mechanism |-> "limited_remedies", patterns |-> <<"sole remedy", "exclusive remedy", "only remedy", "service credits only">> ] >> ]
  >>

(***************************************************************************)
(* Strings.  Python's str operations used by the analyzer.                 *)
(***************************************************************************)

\* s[i] (1-based) as a one-character string
Ch(s, i) ==
  SubSeq(s, i, i)

Min(S) ==
  CHOOSE x \in S : \A y \in S : x <= y

Max(S) ==
  CHOOSE x \in S : \A y \in S : x >= y

UpperCase ==
  "ABCDEFGHIJKLMNOPQRSTUVWXYZ"

LowerCase ==
  "abcdefghijklmnopqrstuvwxyz"

Digits ==
  "0123456789"

\* the characters \s matches and str.strip() removes
WhiteSpace ==
  " \n\t\r\f"

CharsOf(s) ==
  {Ch(s, i) : i \in 1..Len(s)}

UpperSet ==
  CharsOf(UpperCase)

DigitSet ==
  CharsOf(Digits)

SpaceSet ==
  CharsOf(WhiteSpace)

ToLower ==
  [c \in UpperSet |-> Ch(LowerCase, CHOOSE i \in 1..26 : Ch(UpperCase, i) = c)]

\* str.lower(), character by character
RECURSIVE Lower(_)
Lower(s) ==
  IF Len(s) = 0 THEN ""
  ELSE IF Len(s) = 1 THEN (IF s \in UpperSet THEN ToLower[s] ELSE s)
  ELSE LET m == Len(s) \div 2
       IN  Lower(SubSeq(s, 1, m)) \o Lower(SubSeq(s, m + 1, Len(s)))

\* Python's `p in t` on strings: p occurs in t as a contiguous substring
Contains(p, t) ==
  \E i \in 1..(Len(t) - Len(p) + 1) : SubSeq(t, i, i + Len(p) - 1) = p

\* the first position from i on that holds no whitespace, Len(s) + 1 when
\* there is none
RECURSIVE FirstInk(_, _)
FirstInk(s, i) ==
  IF i > Len(s) \/ Ch(s, i) \notin SpaceSet THEN i ELSE FirstInk(s, i + 1)

\* the last position up to i that holds no whitespace, 0 when there is none
RECURSIVE LastInk(_, _)
LastInk(s, i) ==
  IF i < 1 \/ Ch(s, i) \notin SpaceSet THEN i ELSE LastInk(s, i - 1)

\* str.strip(): leading and trailing whitespace removed
Strip(s) ==
  SubSeq(s, FirstInk(s, 1), LastInk(s, Len(s)))

\* s[:n]
Prefix(s, n) ==
  IF Len(s) <= n THEN s ELSE SubSeq(s, 1, n)

\* number of consecutive characters of t, from position i on, that lie in cls
RunLen(t, i, cls) ==
  LET stop == {j \in i..Len(t) : Ch(t, j) \notin cls}
  IN  IF stop = {} THEN Len(t) - i + 1 ELSE Min(stop) - i

\* Length of the match of  \n\n+|\n[0-9]+\.|\n[A-Z][A-Z\s]+\n  that starts at
\* position i of t, 0 when none starts there.  The alternatives are tried in
\* order and each quantifier is greedy: the heading alternative ends at the
\* last newline of the run of capitals and whitespace that follows the first
\* capital.
MatchLen(t, i) ==
  IF i > Len(t) \/ Ch(t, i) # "\n" THEN 0
  ELSE LET nl == RunLen(t, i, {"\n"})
           d  == RunLen(t, i + 1, DigitSet)
       IN  IF nl >= 2 THEN nl
           ELSE IF d >= 1 /\ i + 1 + d <= Len(t) /\ Ch(t, i + 1 + d) = "."
                THEN d + 2
           ELSE IF i + 1 <= Len(t) /\ Ch(t, i + 1) \in UpperSet
                THEN LET r    == RunLen(t, i + 2, UpperSet \cup SpaceSet)
                         ends == {j \in (i + 3)..(i + 1 + r) : Ch(t, j) = "\n"}
                     IN  IF ends = {} THEN 0 ELSE Max(ends) - i + 1
           ELSE 0

\* re.split(pattern, t): the pieces of t between the successive leftmost matches
RECURSIVE ReSplit(_, _)
ReSplit(t, from) ==
  LET starts == {i \in from..Len(t) : Ch(t, i) = "\n" /\ MatchLen(t, i) > 0}
  IN  IF starts = {} THEN <<SubSeq(t, from, Len(t))>>
      ELSE LET i == Min(starts)
           IN  <<SubSeq(t, from, i - 1)>> \o ReSplit(t, i + MatchLen(t, i))

\* t.split('\n')
RECURSIVE SplitLines(_, _)
SplitLines(t, from) ==
  LET starts == {i \in from..Len(t) : Ch(t, i) = "\n"}
  IN  IF starts = {} THEN <<SubSeq(t, from, Len(t))>>
      ELSE LET i == Min(starts)
           IN  <<SubSeq(t, from, i - 1)>> \o SplitLines(t, i + 1)

\* s.replace(a, b) for one-character a and b
RECURSIVE ReplaceChar(_, _, _)
ReplaceChar(s, a, b) ==
  IF Len(s) = 0 THEN ""
  ELSE IF Len(s) = 1 THEN (IF s = a THEN b ELSE s)
  ELSE LET m == Len(s) \div 2
       IN  ReplaceChar(SubSeq(s, 1, m), a, b) \o ReplaceChar(SubSeq(s, m + 1, Len(s)), a, b)

\* str() of a float that has at most two decimals, given in hundredths:
\* 1250 is "12.5", 1000 is "10.0", 375 is "3.75"
FormatHundredths(v) ==
  LET whole == v \div 100
      frac  == v % 100
  IN  ToString(whole) \o "." \o
        (IF frac % 10 = 0 THEN ToString(frac \div 10)
         ELSE IF frac < 10 THEN "0" \o ToString(frac)
         ELSE ToString(frac))

\* str() of a float that has at most one decimal, given in tenths
FormatTenths(v) ==
  ToString(v \div 10) \o "." \o ToString(v % 10)

(***************************************************************************)
(* ContractAnalyzer                                                        *)
(***************************************************************************)

\* len(s.strip()) > 100, len(p) > 100
SectionFilterLen == 100
\* if len(section) < 100: continue
MinSectionLen == 100
\* if len(sections) < 5
MinSections == 5
\* if keyword_matches >= 2
MinKeywordMatches == 2
\* section[:500]
ClauseTextLimit == 500
MapStrip(ss) ==
  [k \in 1..Len(ss) |-> Strip(ss[k])]

LongEnough(s) ==
  Len(s) > SectionFilterLen

\* SplitIntoSections falling back also when exactly MinSections sections are
\* left
SplitIntoSectionsAtMost(text_) ==
  LET primary == SelectSeq(MapStrip(ReSplit(text_, 1)), LongEnough)
  IN  IF Len(primary) <= MinSections
      THEN SelectSeq(SplitLines(text_, 1), LongEnough)
      ELSE primary

\* ContractAnalyzer._split_into_sections
SplitIntoSections(text_) ==
  LET primary == SelectSeq(MapStrip(ReSplit(text_, 1)), LongEnough)
  IN  IF Len(primary) < MinSections
      THEN SelectSeq(SplitLines(text_, 1), LongEnough)
      ELSE primary

\* any(p in text for p in patterns)
AnyIn(patterns, text_) ==
  \E k \in 1..Len(patterns) : Contains(patterns[k], text_)

\* sum(1 for kw in keywords if kw in text)
CountIn(keywords, text_) ==
  Cardinality({k \in 1..Len(keywords) : Contains(keywords[k], text_)})

\* FirstMechanism with the loop running to its end: the last mechanism with a
\* pattern in the text wins
RECURSIVE LastMechanism(_, _, _)
LastMechanism(mechs, m, text_) ==
  IF m > Len(mechs) THEN "standard"
  ELSE LET later == LastMechanism(mechs, m + 1, text_)
       IN  IF later # "standard" THEN later
           ELSE IF AnyIn(mechs[m].patterns, text_) THEN mechs[m].mechanism
           ELSE "standard"

\* the loop of _identify_lock_in_mechanism over the mechanisms of one
\* category, in table order, returning at the first pattern found
RECURSIVE FirstMechanism(_, _, _)
FirstMechanism(mechs, m, text_) ==
  IF m > Len(mechs) THEN "standard"
  ELSE IF AnyIn(mechs[m].patterns, text_) THEN mechs[m].mechanism
  ELSE FirstMechanism(mechs, m + 1, text_)

\* ContractAnalyzer._identify_lock_in_mechanism
IdentifyLockInMechanism(patterns, text_, category) ==
  IF \A k \in 1..Len(patterns) : patterns[k].category # category
  THEN "standard"
  ELSE LET e == CHOOSE k \in 1..Len(patterns) : patterns[k].category = category
       IN  FirstMechanism(patterns[e].mechanisms, 1, text_)

\* ClauseId with the counter read before its increment
ClauseIdFromZero(vendor_name_, n) ==
  vendor_name_ \o "_" \o ToString(n - 1)

\* f"{vendor_name}_{clause_id}"
ClauseId(vendor_name_, n) ==
  vendor_name_ \o "_" \o ToString(n)

\* MakeClause with the risk level also depending on the keyword count
MakeClauseKeywordRisk(self, config, section, section_lower, vendor_name_, file_name_, n, keyword_matches) ==
  [ clause_id         |-> ClauseId(vendor_name_, n),
    vendor_name       |-> vendor_name_,
    contract_file     |-> file_name_,
    clause_category   |-> config.category,
    clause_text       |-> Prefix(section, ClauseTextLimit),
    risk_level        |-> IF AnyIn(config.negative_keywords, section_lower) /\ keyword_matches > 2
                          THEN "High" ELSE "Medium",
    lock_in_mechanism |-> IdentifyLockInMechanism(self.lock_in_patterns, section_lower, config.category),
    keyword_matches   |-> keyword_matches ]

\* the clause find_clauses appends for a qualifying section
MakeClause(self, config, section, section_lower, vendor_name_, file_name_, n, keyword_matches) ==
  [ clause_id         |-> ClauseId(vendor_name_, n),
    vendor_name       |-> vendor_name_,
    contract_file     |-> file_name_,
    clause_category   |-> config.category,
    clause_text       |-> Prefix(section, ClauseTextLimit),
    risk_level        |-> IF AnyIn(config.negative_keywords, section_lower)
                          THEN "High" ELSE "Medium",
    lock_in_mechanism |-> IdentifyLockInMechanism(self.lock_in_patterns, section_lower, config.category),
    keyword_matches   |-> keyword_matches ]

\* FindLoop without the required-phrase gate
RECURSIVE FindLoopNoGate(_, _, _, _, _, _, _, _)
FindLoopNoGate(self, sections_, vendor_name_, file_name_, c, s, clause_id, clauses_) ==
  IF c > Len(self.clause_categories) THEN clauses_
  ELSE IF s > Len(sections_)
       THEN FindLoopNoGate(self, sections_, vendor_name_, file_name_, c + 1, 1, clause_id, clauses_)
  ELSE LET config == self.clause_categories[c]
           section == sections_[s]
           section_lower == Lower(section)
           keyword_matches == CountIn(config.keywords, section_lower)
       IN  IF Len(section) >= MinSectionLen /\ keyword_matches >= MinKeywordMatches
           THEN FindLoopNoGate(self, sections_, vendor_name_, file_name_, c, s + 1, clause_id + 1,
                               Append(clauses_,
                                      MakeClause(self, config, section, section_lower,
                                                 vendor_name_, file_name_, clause_id + 1,
                                                 keyword_matches)))
           ELSE FindLoopNoGate(self, sections_, vendor_name_, file_name_, c, s + 1, clause_id, clauses_)

\* FindLoop with a section that has yielded a clause left out for the
\* categories that follow
RECURSIVE FindLoopOncePerSection(_, _, _, _, _, _, _, _)
FindLoopOncePerSection(self, sections_, vendor_name_, file_name_, c, s, clause_id, clauses_) ==
  IF c > Len(self.clause_categories) THEN clauses_
  ELSE IF s > Len(sections_)
       THEN FindLoopOncePerSection(self, sections_, vendor_name_, file_name_, c + 1, 1, clause_id, clauses_)
  ELSE LET config == self.clause_categories[c]
           section == sections_[s]
           section_lower == Lower(section)
           keyword_matches == CountIn(config.keywords, section_lower)
       IN  IF \/ Len(section) < MinSectionLen
              \/ \E k \in 1..Len(clauses_) : clauses_[k].clause_text = Prefix(section, ClauseTextLimit)
           THEN FindLoopOncePerSection(self, sections_, vendor_name_, file_name_, c, s + 1, clause_id, clauses_)
           ELSE IF ~AnyIn(config.required_phrases, section_lower)
           THEN FindLoopOncePerSection(self, sections_, vendor_name_, file_name_, c, s + 1, clause_id, clauses_)
           ELSE IF keyword_matches >= MinKeywordMatches
           THEN FindLoopOncePerSection(self, sections_, vendor_name_, file_name_, c, s + 1, clause_id + 1,
                                       Append(clauses_,
                                              MakeClause(self, config, section, section_lower,
                                                         vendor_name_, file_name_, clause_id + 1,
                                                         keyword_matches)))
           ELSE FindLoopOncePerSection(self, sections_, vendor_name_, file_name_, c, s + 1, clause_id, clauses_)

\* the loops of find_clauses: categories in table order, sections in order;
\* clause_id is the counter the function increments before each append
RECURSIVE FindLoop(_, _, _, _, _, _, _, _)
FindLoop(self, sections_, vendor_name_, file_name_, c, s, clause_id, clauses_) ==
  IF c > Len(self.clause_categories) THEN clauses_
  ELSE IF s > Len(sections_)
       THEN FindLoop(self, sections_, vendor_name_, file_name_, c + 1, 1, clause_id, clauses_)
  ELSE LET config == self.clause_categories[c]
           section == sections_[s]
           section_lower == Lower(section)
           keyword_matches == CountIn(config.keywords, section_lower)
       IN  IF Len(section) < MinSectionLen
           THEN FindLoop(self, sections_, vendor_name_, file_name_, c, s + 1, clause_id, clauses_)
           ELSE IF ~AnyIn(config.required_phrases, section_lower)
           THEN FindLoop(self, sections_, vendor_name_, file_name_, c, s + 1, clause_id, clauses_)
           ELSE IF keyword_matches >= MinKeywordMatches
           THEN FindLoop(self, sections_, vendor_name_, file_name_, c, s + 1, clause_id + 1,
                         Append(clauses_,
                                MakeClause(self, config, section, section_lower,
                                           vendor_name_, file_name_, clause_id + 1,
                                           keyword_matches)))
           ELSE FindLoop(self, sections_, vendor_name_, file_name_, c, s + 1, clause_id, clauses_)

\* ContractAnalyzer.find_clauses
FindClausesOf(self, text_, vendor_name_, file_name_) ==
  FindLoop(self, SplitIntoSections(text_), vendor_name_, file_name_, 1, 1, 0, <<>>)

(***************************************************************************)
(* ContractScorer                                                          *)
(***************************************************************************)

\* category -> max points, in the order the dict is iterated
CATEGORY_WEIGHTS ==
  << [category |-> "service_level",       max_points |-> 25],
     [category |-> "pricing_terms",       max_points |-> 25],
     [category |-> "termination_exit",    max_points |-> 20],
     [category |-> "data_portability",    max_points |-> 15],
     [category |-> "support_obligations", max_points |-> 15] >>

\* LOCK_IN_MULTIPLIERS with a multiplier for no_api_access
LOCK_IN_MULTIPLIERS_WITH_API ==
  ( "no_compensation"      :> 100 @@
    "price_increase_risk"  :> 100 @@
    "data_restriction"     :> 100 @@
    "unilateral_pricing"   :> 100 @@
    "no_sla"               :> 100 @@
    "discontinuation_risk" :> 70 @@
    "automatic_renewal"    :> 70 @@
    "limited_remedies"     :> 70 @@
    "no_commitment"        :> 70 @@
    "no_guarantee"         :> 70 @@
    "cancellation_penalty" :> 50 @@
    "no_support_guarantee" :> 50 @@
    "exit_fees"            :> 50 @@
    "no_notice_changes"    :> 50 @@
    "no_api_access"        :> 50 @@
    "standard"             :> 30 )

\* mechanism -> multiplier, in hundredths
LOCK_IN_MULTIPLIERS ==
  ( "no_compensation"      :> 100 @@
    "price_increase_risk"  :> 100 @@
    "data_restriction"     :> 100 @@
    "unilateral_pricing"   :> 100 @@
    "no_sla"               :> 100 @@
    "discontinuation_risk" :> 70 @@
    "automatic_renewal"    :> 70 @@
    "limited_remedies"     :> 70 @@
    "no_commitment"        :> 70 @@
    "no_guarantee"         :> 70 @@
    "cancellation_penalty" :> 50 @@
    "no_support_guarantee" :> 50 @@
    "exit_fees"            :> 50 @@
    "no_notice_changes"    :> 50 @@
    "standard"             :> 30 )

\* tier -> (lowest, highest) total, in points
RISK_THRESHOLDS ==
  [ low |-> <<0, 33>>, medium |-> <<34, 66>>, high |-> <<67, 100>> ]

\* self.lock_in_multipliers.get(lock_in_type, 0.5), in hundredths
DefaultHighMultiplier == 50
\* self.lock_in_multipliers.get(lock_in_type, 0.3), in hundredths
DefaultMediumMultiplier == 30
\* max_points * 0.5 for a category without clauses, in hundredths per point
MissingCoverageFactor == 50
\* details.get('high_risk_percentage', 0) >= 70
HighRiskPercentageLimit == 70
\* details['score'] >= details['max_points'] * 0.7, in hundredths per point
HighScoreFactor == 70
Categories ==
  {CATEGORY_WEIGHTS[k].category : k \in 1..Len(CATEGORY_WEIGHTS)}

\* dict.get(key, default)
Get(d, key, default) ==
  IF key \in DOMAIN d THEN d[key] ELSE default

\* round(num / den, ndigits) where num / den is already scaled to the last
\* kept digit.  Python rounds the binary double: away from an exact decimal
\* tie the result is the nearest value; on a tie the double lies just below
\* or just above it (or on it), so either neighbour can come out.  tie_up
\* says which one the arithmetic produces.
Round(num, den, tie_up) ==
  LET q == num \div den
      r == num % den
  IN  IF 2 * r < den THEN q
      ELSE IF 2 * r > den THEN q + 1
      ELSE IF tie_up THEN q + 1 ELSE q

\* PenaltyLoop with the full multiplier for every clause, High or not
RECURSIVE PenaltyLoopNoHalf(_, _, _, _, _)
PenaltyLoopNoHalf(self, category_clauses, k, total_penalty, high_risk_count) ==
  IF k > Len(category_clauses)
  THEN [total_penalty |-> total_penalty, high_risk_count |-> high_risk_count]
  ELSE LET clause == category_clauses[k]
       IN  IF clause.risk_level = "High"
           THEN PenaltyLoopNoHalf(self, category_clauses, k + 1,
                  total_penalty
                    + 2 * Get(self.lock_in_multipliers, clause.lock_in_mechanism, DefaultHighMultiplier),
                  high_risk_count + 1)
           ELSE PenaltyLoopNoHalf(self, category_clauses, k + 1,
                  total_penalty
                    + 2 * Get(self.lock_in_multipliers, clause.lock_in_mechanism, DefaultMediumMultiplier),
                  high_risk_count)

\* PenaltyLoop with no penalty for a mechanism that has no multiplier
RECURSIVE PenaltyLoopNoDefault(_, _, _, _, _)
PenaltyLoopNoDefault(self, category_clauses, k, total_penalty, high_risk_count) ==
  IF k > Len(category_clauses)
  THEN [total_penalty |-> total_penalty, high_risk_count |-> high_risk_count]
  ELSE LET clause == category_clauses[k]
       IN  IF clause.risk_level = "High"
           THEN PenaltyLoopNoDefault(self, category_clauses, k + 1,
                  total_penalty + 2 * Get(self.lock_in_multipliers, clause.lock_in_mechanism, 0),
                  high_risk_count + 1)
           ELSE PenaltyLoopNoDefault(self, category_clauses, k + 1,
                  total_penalty + Get(self.lock_in_multipliers, clause.lock_in_mechanism, 0),
                  high_risk_count)

\* the loop over category_clauses: total_penalty (in two-hundredths) and
\* high_risk_count
RECURSIVE PenaltyLoop(_, _, _, _, _)
PenaltyLoop(self, category_clauses, k, total_penalty, high_risk_count) ==
  IF k > Len(category_clauses)
  THEN [total_penalty |-> total_penalty, high_risk_count |-> high_risk_count]
  ELSE LET clause == category_clauses[k]
       IN  IF clause.risk_level = "High"
           THEN PenaltyLoop(self, category_clauses, k + 1,
                  total_penalty
                    + 2 * Get(self.lock_in_multipliers, clause.lock_in_mechanism, DefaultHighMultiplier),
                  high_risk_count + 1)
           ELSE PenaltyLoop(self, category_clauses, k + 1,
                  total_penalty
                    + Get(self.lock_in_multipliers, clause.lock_in_mechanism, DefaultMediumMultiplier),
                  high_risk_count)

\* CategoryClauses with only the High clauses of the category kept
CategoryClausesHighOnly(clauses_, category) ==
  LET InCategory(c) == c.clause_category = category /\ c.risk_level = "High"
  IN  SelectSeq(clauses_, InCategory)

\* [c for c in clauses if c.get('clause_category') == category]
CategoryClauses(clauses_, category) ==
  LET InCategory(c) == c.clause_category = category
  IN  SelectSeq(clauses_, InCategory)

\* CategoryDetail with the penalties summed and not averaged
CategoryDetailSum(self, clauses_, category, max_points, tie_up) ==
  LET category_clauses == CategoryClauses(clauses_, category)
      n == Len(category_clauses)
      acc == PenaltyLoop(self, category_clauses, 1, 0, 0)
  IN  IF n = 0
      THEN [ score            |-> max_points * MissingCoverageFactor,
             max_points       |-> max_points,
             clause_count     |-> 0,
             high_risk_count  |-> 0,
             missing_coverage |-> TRUE,
             penalty_reason   |-> "No clauses found in this category" ]
      ELSE [ score                |-> Round(max_points * acc.total_penalty, 2, tie_up),
             max_points           |-> max_points,
             clause_count         |-> n,
             high_risk_count      |-> acc.high_risk_count,
             high_risk_percentage |-> Round(acc.high_risk_count * 1000, n, tie_up),
             missing_coverage     |-> FALSE ]

\* CategoryDetail with a category without clauses scored as if it had none
\* to penalise
CategoryDetailNoPenalty(self, clauses_, category, max_points, tie_up) ==
  LET category_clauses == CategoryClauses(clauses_, category)
      n == Len(category_clauses)
      acc == PenaltyLoop(self, category_clauses, 1, 0, 0)
  IN  IF n = 0
      THEN [ score            |-> 0,
             max_points       |-> max_points,
             clause_count     |-> 0,
             high_risk_count  |-> 0,
             missing_coverage |-> TRUE,
             penalty_reason   |-> "No clauses found in this category" ]
      ELSE [ score                |-> Round(max_points * acc.total_penalty, 2 * n, tie_up),
             max_points           |-> max_points,
             clause_count         |-> n,
             high_risk_count      |-> acc.high_risk_count,
             high_risk_percentage |-> Round(acc.high_risk_count * 1000, n, tie_up),
             missing_coverage     |-> FALSE ]

\* one iteration of the loop of calculate_category_score: the details record
\* of one category; score in hundredths of a point, high_risk_percentage in
\* tenths of a percent
CategoryDetail(self, clauses_, category, max_points, tie_up) ==
  LET category_clauses == CategoryClauses(clauses_, category)
      n == Len(category_clauses)
      acc == PenaltyLoop(self, category_clauses, 1, 0, 0)
  IN  IF n = 0
      THEN [ score            |-> max_points * MissingCoverageFactor,
             max_points       |-> max_points,
             clause_count     |-> 0,
             high_risk_count  |-> 0,
             missing_coverage |-> TRUE,
             penalty_reason   |-> "No clauses found in this category" ]
      ELSE [ score                |-> Round(max_points * acc.total_penalty, 2 * n, tie_up),
             max_points           |-> max_points,
             clause_count         |-> n,
             high_risk_count      |-> acc.high_risk_count,
             high_risk_percentage |-> Round(acc.high_risk_count * 1000, n, tie_up),
             missing_coverage     |-> FALSE ]

\* ContractScorer.calculate_category_score: category_details
CalculateCategoryDetails(self, clauses_, fp) ==
  [ category \in {self.category_weights[k].category : k \in 1..Len(self.category_weights)} |->
      LET k == CHOOSE j \in 1..Len(self.category_weights) :
                 self.category_weights[j].category = category
      IN  CategoryDetail(self, clauses_, category, self.category_weights[k].max_points,
                         fp[category]) ]

\* ContractScorer.calculate_category_score: category_scores
CalculateCategoryScore(self, clauses_, fp) ==
  LET details == CalculateCategoryDetails(self, clauses_, fp)
  IN  [category \in DOMAIN details |-> details[category].score]

\* SumScores that stops one category early
RECURSIVE SumScoresShort(_, _, _)
SumScoresShort(self, category_scores, k) ==
  IF k >= Len(self.category_weights) THEN 0
  ELSE category_scores[self.category_weights[k].category]
         + SumScoresShort(self, category_scores, k + 1)

\* sum(category_scores.values()), in the order of the weight table
RECURSIVE SumScores(_, _, _)
SumScores(self, category_scores, k) ==
  IF k > Len(self.category_weights) THEN 0
  ELSE category_scores[self.category_weights[k].category]
         + SumScores(self, category_scores, k + 1)

\* the risk level of calculate_total_score; total_score in hundredths
RiskLevel(self, total_score) ==
  IF /\ self.risk_thresholds.low[1] * 100 <= total_score
     /\ total_score <= self.risk_thresholds.low[2] * 100
  THEN "LOW"
  ELSE IF /\ self.risk_thresholds.medium[1] * 100 <= total_score
          /\ total_score <= self.risk_thresholds.medium[2] * 100
  THEN "MEDIUM"
  ELSE "HIGH"

\* ContractScorer.calculate_total_score.  The category scores are whole
\* hundredths, so round(total, 2) returns their sum.
CalculateTotalScore(self, category_scores) ==
  LET total_score == SumScores(self, category_scores, 1)
  IN  [total_score |-> total_score, risk_level |-> RiskLevel(self, total_score)]

\* category.replace("_", " ")
Spaced(category) ==
  ReplaceChar(category, "_", " ")

\* CategoryIssue with the three tests made one after the other, none of them
\* closing the others
CategoryIssueAll(category, details) ==
  (IF details.missing_coverage
   THEN << [ category |-> category, severity |-> "HIGH",
             issue    |-> "No " \o Spaced(category) \o " clauses found",
             impact   |-> "Critical contractual gap - no protection in this area" ] >>
   ELSE << >>)
  \o (IF Get(details, "high_risk_percentage", 0) >= HighRiskPercentageLimit * 10
      THEN << [ category |-> category, severity |-> "HIGH",
                issue    |-> FormatTenths(details.high_risk_percentage) \o "% of "
                               \o Spaced(category) \o " clauses are high-risk",
                impact   |-> "Significant lock-in risk in this category" ] >>
      ELSE << >>)
  \o (IF ~details.missing_coverage /\ details.score >= details.max_points * HighScoreFactor
      THEN << [ category |-> category, severity |-> "MEDIUM",
                issue    |-> "Category scored " \o FormatHundredths(details.score) \o "/"
                               \o ToString(details.max_points) \o " points",
                impact   |-> "Above-average risk in this area" ] >>
      ELSE << >>)

\* one iteration of the first loop of _identify_critical_issues: the
\* category-level issue of one category, as a sequence of 0 or 1 issues
CategoryIssue(category, details) ==
  IF details.missing_coverage
  THEN << [ category |-> category, severity |-> "HIGH",
            issue    |-> "No " \o Spaced(category) \o " clauses found",
            impact   |-> "Critical contractual gap - no protection in this area" ] >>
  ELSE IF Get(details, "high_risk_percentage", 0) >= HighRiskPercentageLimit * 10
  THEN << [ category |-> category, severity |-> "HIGH",
            issue    |-> FormatTenths(details.high_risk_percentage) \o "% of "
                           \o Spaced(category) \o " clauses are high-risk",
            impact   |-> "Significant lock-in risk in this category" ] >>
  ELSE IF details.score >= details.max_points * HighScoreFactor
  THEN << [ category |-> category, severity |-> "MEDIUM",
            issue    |-> "Category scored " \o FormatHundredths(details.score) \o "/"
                           \o ToString(details.max_points) \o " points",
            impact   |-> "Above-average risk in this area" ] >>
  ELSE << >>

\* the first loop of _identify_critical_issues, over category_details
RECURSIVE CategoryIssues(_, _, _)
CategoryIssues(self, category_details, k) ==
  IF k > Len(self.category_weights) THEN << >>
  ELSE LET category == self.category_weights[k].category
       IN  CategoryIssue(category, category_details[category])
             \o CategoryIssues(self, category_details, k + 1)

\* high_risk_mechanisms
HighRiskMechanisms ==
  {"no_compensation", "unilateral_pricing", "data_restriction", "no_sla"}

\* MechanismIssues with one issue for each category and mechanism, however
\* many clauses carry it
RECURSIVE MechanismIssuesOnce(_, _)
MechanismIssuesOnce(clauses_, k) ==
  IF k > Len(clauses_) THEN << >>
  ELSE (IF /\ clauses_[k].lock_in_mechanism \in HighRiskMechanisms
           /\ \A j \in 1..(k - 1) :
                \/ clauses_[j].clause_category # clauses_[k].clause_category
                \/ clauses_[j].lock_in_mechanism # clauses_[k].lock_in_mechanism
        THEN << [ category |-> clauses_[k].clause_category, severity |-> "HIGH",
                  issue    |-> "Contains " \o Spaced(clauses_[k].lock_in_mechanism) \o " clause",
                  impact   |-> "Critical lock-in mechanism identified" ] >>
        ELSE << >>)
       \o MechanismIssuesOnce(clauses_, k + 1)

\* the second loop of _identify_critical_issues, over the clauses
RECURSIVE MechanismIssues(_, _)
MechanismIssues(clauses_, k) ==
  IF k > Len(clauses_) THEN << >>
  ELSE (IF clauses_[k].lock_in_mechanism \in HighRiskMechanisms
        THEN << [ category |-> clauses_[k].clause_category, severity |-> "HIGH",
                  issue    |-> "Contains " \o Spaced(clauses_[k].lock_in_mechanism) \o " clause",
                  impact   |-> "Critical lock-in mechanism identified" ] >>
        ELSE << >>)
       \o MechanismIssues(clauses_, k + 1)

\* IdentifyCriticalIssues with the loop over the clauses first
IdentifyCriticalIssuesClausesFirst(self, category_details, clauses_) ==
  MechanismIssues(clauses_, 1) \o CategoryIssues(self, category_details, 1)

\* ContractScorer._identify_critical_issues
IdentifyCriticalIssues(self, category_details, clauses_) ==
  CategoryIssues(self, category_details, 1) \o MechanismIssues(clauses_, 1)

\* ContractScorer.score_contract (the recommendations and the interpretation
\* text are renderings of the fields below)
ScoreContractOf(self, clauses_, fp) ==
  LET category_details == CalculateCategoryDetails(self, clauses_, fp)
      category_scores == CalculateCategoryScore(self, clauses_, fp)
      total == CalculateTotalScore(self, category_scores)
  IN  [ total_score      |-> total.total_score,
        risk_level       |-> total.risk_level,
        category_scores  |-> category_scores,
        category_details |-> category_details,
        critical_issues  |-> IdentifyCriticalIssues(self, category_details, clauses_) ]

(***************************************************************************)
(* Files: ContractAnalyzer.extract_text_from_html, analyze_contract_file   *)
(* and RiskAssessmentEngine.assess_contract_file                           *)
(***************************************************************************)

\* s.split(sep) for a non-empty sep: the pieces of s from position `from` on
RECURSIVE SplitOn(_, _, _)
SplitOn(s, sep, from) ==
  LET starts == {i \in from..(Len(s) - Len(sep) + 1) : SubSeq(s, i, i + Len(sep) - 1) = sep}
  IN  IF starts = {} THEN <<SubSeq(s, from, Len(s))>>
      ELSE LET i == Min(starts)
           IN  <<SubSeq(s, from, i - 1)>> \o SplitOn(s, sep, i + Len(sep))

\* sep.join(pieces)
RECURSIVE Join(_, _)
Join(pieces, sep) ==
  IF Len(pieces) = 0 THEN ""
  ELSE IF Len(pieces) = 1 THEN pieces[1]
  ELSE pieces[1] \o sep \o Join(Tail(pieces), sep)

\* s.replace(old, new)
ReplaceAll(s, old, new) ==
  Join(SplitOn(s, old, 1), new)

LowerSet ==
  CharsOf(LowerCase)

ToUpper ==
  [c \in LowerSet |-> Ch(UpperCase, CHOOSE i \in 1..26 : Ch(LowerCase, i) = c)]

\* str.title(): a letter that follows a letter is lower-cased, any other
\* letter is upper-cased
RECURSIVE TitleFrom(_, _)
TitleFrom(s, i) ==
  IF i > Len(s) THEN ""
  ELSE LET c     == Ch(s, i)
           after == i > 1 /\ Ch(s, i - 1) \in (UpperSet \cup LowerSet)
       IN  (IF c \in LowerSet /\ ~after THEN ToUpper[c]
            ELSE IF c \in UpperSet /\ after THEN ToLower[c]
            ELSE c)
           \o TitleFrom(s, i + 1)

Title(s) ==
  TitleFrom(s, 1)

\* Path(file_path).name: what follows the last "/"
PathName(file_path) ==
  LET slashes == {i \in 1..Len(file_path) : Ch(file_path, i) = "/"}
  IN  IF slashes = {} THEN file_path
      ELSE SubSeq(file_path, Max(slashes) + 1, Len(file_path))

\* Path(file_path).stem: the name without its last suffix; a dot that opens
\* or closes the name starts no suffix
PathStem(file_path) ==
  LET name == PathName(file_path)
      dots == {i \in 2..(Len(name) - 1) : Ch(name, i) = "."}
  IN  IF dots = {} THEN name ELSE SubSeq(name, 1, Max(dots) - 1)

\* the vendor name analyze_contract_file derives from the file name
VendorNameOf(file_path) ==
  Title(ReplaceAll(ReplaceAll(ReplaceAll(PathStem(file_path), "_tos", ""), "_terms", ""), "_", " "))

\* the chunks of extract_text_from_html: every line stripped and split at
\* double spaces, every piece stripped, the empty pieces left out
RECURSIVE ChunksOf(_, _, _)
ChunksOf(lines, l, p) ==
  IF l > Len(lines) THEN << >>
  ELSE LET phrases == SplitOn(Strip(lines[l]), "  ", 1)
       IN  IF p > Len(phrases) THEN ChunksOf(lines, l + 1, 1)
           ELSE LET chunk == Strip(phrases[p])
                IN  (IF chunk = "" THEN << >> ELSE <<chunk>>) \o ChunksOf(lines, l, p + 1)

\* NormalizeText with the chunks joined by line ends
NormalizeTextKeepLines(content) ==
  Join(ChunksOf(SplitLines(content, 1), 1, 1), "\n")

\* the text of a file as extract_text_from_html cleans it: the chunks joined
\* by single spaces.  The files are text without markup and their lines end
\* with "\n": get_text() returns them as they are.
NormalizeText(content) ==
  Join(ChunksOf(SplitLines(content, 1), 1, 1), " ")

\* ContractAnalyzer.extract_text_from_html; files maps a path to <<content>>
\* or, when there is no such file, to << >>: open() raises, the exception is
\* caught and the text is empty
ExtractTextFromHtml(files, file_path) ==
  IF files[file_path] = << >> THEN "" ELSE NormalizeText(files[file_path][1])

\* texts shorter than this are not analysed
MinTextLen == 1000

\* AnalyzeContractFile without the test of the length of the text
AnalyzeContractFileAnyLength(self, files, file_path) ==
  LET txt == ExtractTextFromHtml(files, file_path)
  IN  IF txt = "" THEN << >>
      ELSE FindClausesOf(self, txt, VendorNameOf(file_path), PathName(file_path))

\* ContractAnalyzer.analyze_contract_file
AnalyzeContractFile(self, files, file_path) ==
  LET txt == ExtractTextFromHtml(files, file_path)
  IN  IF txt = "" \/ Len(txt) < MinTextLen THEN << >>
      ELSE FindClausesOf(self, txt, VendorNameOf(file_path), PathName(file_path))

\* RiskAssessmentEngine.assess_contract_file from the clauses on: cl is what
\* analyze_contract_file returned for file_path
AssessmentOf(s, file_path, cl, fp) ==
  IF cl = << >>
  THEN [ error       |-> "No clauses could be extracted from contract",
         file_path   |-> file_path,
         vendor_name |-> PathStem(file_path) ]
  ELSE LET assessment == ScoreContractOf(s, cl, fp)
       IN  [ total_score      |-> assessment.total_score,
             risk_level       |-> assessment.risk_level,
             category_scores  |-> assessment.category_scores,
             category_details |-> assessment.category_details,
             critical_issues  |-> assessment.critical_issues,
             vendor_name      |-> cl[1].vendor_name,
             contract_file    |-> PathName(file_path),
             total_clauses    |-> Len(cl),
             clauses          |-> cl ]

\* RiskAssessmentEngine.assess_contract_file
AssessContractFileOf(a, s, files, file_path, fp) ==
  AssessmentOf(s, file_path, AnalyzeContractFile(a, files, file_path), fp)

\* [a for a in assessments if 'error' not in a]
ValidAssessments(assessments_) ==
  LET Valid(a) == "error" \notin DOMAIN a
  IN  SelectSeq(assessments_, Valid)

\* one step of sorted(..., key=total_score): a put into the sorted list s
\* behind everything that does not come after it, which keeps the sort stable
InsertByScore(s, a, reverse) ==
  LET after == {i \in 1..Len(s) : IF reverse THEN s[i].total_score < a.total_score
                                  ELSE s[i].total_score > a.total_score}
  IN  IF after = {} THEN Append(s, a)
      ELSE SubSeq(s, 1, Min(after) - 1) \o <<a>> \o SubSeq(s, Min(after), Len(s))

\* SortedByScore with the list left in the order of the assessments
RECURSIVE SortedByScoreUnsorted(_, _, _, _)
SortedByScoreUnsorted(valid, n, acc, reverse) ==
  IF n > Len(valid) THEN acc
  ELSE SortedByScoreUnsorted(valid, n + 1, Append(acc, valid[n]), reverse)

\* sorted(valid, key=lambda x: x['total_score'], reverse=reverse), the first
\* n elements of valid sorted into acc
RECURSIVE SortedByScore(_, _, _, _)
SortedByScore(valid, n, acc, reverse) ==
  IF n > Len(valid) THEN acc
  ELSE SortedByScore(valid, n + 1, InsertByScore(acc, valid[n], reverse), reverse)

\* the [:5] of best_vendors and worst_vendors
VendorsLimit == 5

\* sum(a['total_score'] for a in valid), in hundredths
RECURSIVE SumTotalScores(_, _)
SumTotalScores(valid, n) ==
  IF n > Len(valid) THEN 0 ELSE valid[n].total_score + SumTotalScores(valid, n + 1)

\* sum(scores) for the scores of category, in hundredths
RECURSIVE SumCategoryScores(_, _, _)
SumCategoryScores(valid, category, n) ==
  IF n > Len(valid) THEN 0
  ELSE valid[n].category_scores[category] + SumCategoryScores(valid, category, n + 1)

\* the categories that have a score in some assessment; every assessment
\* that is not an error has category_scores, with all categories of the
\* scorer
ScoredCategories(valid) ==
  UNION {DOMAIN valid[n].category_scores : n \in 1..Len(valid)}

\* RiskAssessmentEngine._calculate_category_averages, in hundredths
CalculateCategoryAverages(valid, tie_up) ==
  [ category \in ScoredCategories(valid) |->
      Round(SumCategoryScores(valid, category, 1), Len(valid), tie_up[category]) ]

\* len([a for a in valid if a['risk_level'] == level])
CountLevel(valid, level) ==
  Cardinality({n \in 1..Len(valid) : valid[n].risk_level = level})

\* RiskAssessmentEngine.generate_comparison_report.  average_score, a float
\* that is not rounded, is the pair <<sum, count>> for sum / count hundredths
\* of a point, and 0 where the code returns the integer 0
GenerateComparisonReport(assessments_, tie_up) ==
  IF assessments_ = << >> THEN << >>
  ELSE LET valid == ValidAssessments(assessments_)
       IN  [ total_vendors     |-> Len(valid),
             average_score     |-> IF valid # << >> THEN <<SumTotalScores(valid, 1), Len(valid)>> ELSE 0,
             risk_distribution |-> [ LOW    |-> CountLevel(valid, "LOW"),
                                     MEDIUM |-> CountLevel(valid, "MEDIUM"),
                                     HIGH   |-> CountLevel(valid, "HIGH") ],
             best_vendors      |-> Prefix(SortedByScore(valid, 1, << >>, FALSE), VendorsLimit),
             worst_vendors     |-> Prefix(SortedByScore(valid, 1, << >>, TRUE), VendorsLimit),
             category_averages |-> CalculateCategoryAverages(valid, tie_up) ]

\* categories whose average is an exact tie between two hundredths
AverageTies(assessments_) ==
  LET valid == ValidAssessments(assessments_)
  IN  {c \in ScoredCategories(valid) : 2 * (SumCategoryScores(valid, c, 1) % Len(valid)) = Len(valid)}

(***************************************************************************)
(* Server: assess_upload of application/server/app.py                      *)
(***************************************************************************)

UPLOAD_FOLDER ==
  "/tmp/contract_uploads"

ALLOWED_EXTENSIONS ==
  {"html", "htm"}

\* allowed_file: the name has a dot and what follows its last dot is, in
\* lower case, an allowed extension
AllowedFile(filename) ==
  LET dots == {i \in 1..Len(filename) : Ch(filename, i) = "."}
  IN  /\ dots # {}
      /\ Lower(SubSeq(filename, Max(dots) + 1, Len(filename))) \in ALLOWED_EXTENSIONS

\* s.split(): the maximal runs of s without white space, from position i on;
\* word is the run read so far
RECURSIVE Words(_, _, _)
Words(s, i, word) ==
  IF i > Len(s) THEN (IF word = "" THEN << >> ELSE <<word>>)
  ELSE IF Ch(s, i) \in SpaceSet
       THEN (IF word = "" THEN << >> ELSE <<word>>) \o Words(s, i + 1, "")
       ELSE Words(s, i + 1, word \o Ch(s, i))

\* the characters secure_filename keeps: [A-Za-z0-9_.-]
FilenameChars ==
  UpperSet \cup LowerSet \cup DigitSet \cup {"_", ".", "-"}

\* s without the characters outside keep
RECURSIVE KeepChars(_, _, _)
KeepChars(s, i, keep) ==
  IF i > Len(s) THEN ""
  ELSE (IF Ch(s, i) \in keep THEN Ch(s, i) ELSE "") \o KeepChars(s, i + 1, keep)

\* s.strip(chars)
StripChars(s, chars) ==
  LET ink == {i \in 1..Len(s) : Ch(s, i) \notin chars}
  IN  IF ink = {} THEN "" ELSE SubSeq(s, Min(ink), Max(ink))

\* werkzeug.utils.secure_filename on an ASCII name, on a system whose path
\* separator is "/": separators become spaces, the words are joined by "_",
\* characters outside [A-Za-z0-9_.-] are dropped and dots and underscores
\* are stripped from both ends
SecureFilename(filename) ==
  StripChars(KeepChars(Join(Words(ReplaceAll(filename, "/", " "), 1, ""), "_"), 1, FilenameChars),
             {".", "_"})

\* os.path.join(UPLOAD_FOLDER, filename) for a sanitized filename
UploadPath(filename) ==
  UPLOAD_FOLDER \o "/" \o SecureFilename(filename)

\* the response of assess_upload after the clean-up.  recommendations is a
\* function of the assessment alone (template_generator.py) and is left out
\* of the body.
UploadResponse(assessment) ==
  IF "error" \in DOMAIN assessment
  THEN [status |-> 400, body |-> [error |-> assessment.error]]
  ELSE [status |-> 200, body |-> [success |-> TRUE, assessment |-> assessment]]

\* the response of assess_upload to a request that does not get to the
\* saving of the file, << >> for a request that does
UploadRejection(files) ==
  IF files = << >>
  THEN <<[status |-> 400, body |-> [error |-> "No contract file provided"]]>>
  ELSE IF files[1].filename = ""
  THEN <<[status |-> 400, body |-> [error |-> "No file selected"]]>>
  ELSE IF ~AllowedFile(files[1].filename)
  THEN <<[status |-> 400, body |-> [error |-> "Only HTML files are allowed"]]>>
  ELSE << >>

(***************************************************************************)
(* Server: calculate_risk_from_questionnaire of application/server/app.py  *)
(***************************************************************************)

\* the value of a decimal digit
DigitOf(c) ==
  (CHOOSE i \in 1..10 : Ch(Digits, i) = c) - 1

IsDigits(s) ==
  \A i \in 1..Len(s) : Ch(s, i) \in DigitSet

\* the number a string of digits denotes, 0 for the empty string
RECURSIVE DigitsValue(_, _, _)
DigitsValue(s, i, acc) ==
  IF i > Len(s) THEN acc ELSE DigitsValue(s, i + 1, 10 * acc + DigitOf(Ch(s, i)))

\* int(s) for a string: <<n>>, or << >> where int raises ValueError.  White
\* space around the number and a sign are accepted; the strings of the
\* inputs have no underscore between digits
ParseInt(s) ==
  LET t      == Strip(s)
      signed == Len(t) > 0 /\ Ch(t, 1) \in {"+", "-"}
      body   == IF signed THEN SubSeq(t, 2, Len(t)) ELSE t
  IN  IF body = "" \/ ~IsDigits(body) THEN << >>
      ELSE IF signed /\ Ch(t, 1) = "-" THEN <<0 - DigitsValue(body, 1, 0)>>
      ELSE <<DigitsValue(body, 1, 0)>>

\* float(s) for a string: <<[num, den]>> for the number num / den, or << >>
\* where float raises ValueError.  nan is 0 / 0 and the infinities are 1 / 0
\* and -1 / 0, which makes FloatLess false for nan and right for the
\* infinities; the strings of the inputs have no exponent
ParseFloat(s) ==
  LET t      == Lower(Strip(s))
      signed == Len(t) > 0 /\ Ch(t, 1) \in {"+", "-"}
      sign   == IF signed /\ Ch(t, 1) = "-" THEN 0 - 1 ELSE 1
      body   == IF signed THEN SubSeq(t, 2, Len(t)) ELSE t
      dots   == {i \in 1..Len(body) : Ch(body, i) = "."}
      whole  == IF dots = {} THEN body ELSE SubSeq(body, 1, Min(dots) - 1)
      frac   == IF dots = {} THEN "" ELSE SubSeq(body, Min(dots) + 1, Len(body))
  IN  IF body = "nan" THEN <<[num |-> 0, den |-> 0]>>
      ELSE IF body \in {"inf", "infinity"} THEN <<[num |-> sign, den |-> 0]>>
      ELSE IF whole \o frac = "" \/ ~IsDigits(whole) \/ ~IsDigits(frac) THEN << >>
      ELSE <<[num |-> sign * DigitsValue(whole \o frac, 1, 0), den |-> 10 ^ Len(frac)]>>

\* x < num / den for a float x and a decimal constant
FloatLess(x, num, den) ==
  x.num * den < num * x.den

\* responses.get(key, '').lower() in options
AnswerIn(responses_, key, options) ==
  Lower(Get(responses_, key, "")) \in options

\* Data Portability scoring
DataPortabilityScore(responses_) ==
  (IF AnswerIn(responses_, "data_export", {"no", "unclear"}) THEN 5 ELSE 0)
  + (IF AnswerIn(responses_, "data_format", {"no", "unclear"}) THEN 4 ELSE 0)
  + (IF AnswerIn(responses_, "api_access", {"no", "unclear"}) THEN 3 ELSE 0)
  + (IF AnswerIn(responses_, "post_termination_access", {"no", "unclear"}) THEN 3 ELSE 0)

\* Pricing Terms scoring
PricingTermsScore(responses_) ==
  (IF AnswerIn(responses_, "price_lock", {"no", "unclear"}) THEN 8 ELSE 0)
  + (IF AnswerIn(responses_, "price_increase", {"yes"})
     THEN 10
          + (IF AnswerIn(responses_, "price_increase_cap", {"no", "unclear"}) THEN 5 ELSE 0)
          + (LET notice_days == ParseInt(Get(responses_, "price_notice", "0"))
             IN  IF notice_days # << >> /\ notice_days[1] < 30 THEN 2 ELSE 0)
     ELSE 0)

\* Support Obligations scoring
SupportObligationsScore(responses_) ==
  (IF AnswerIn(responses_, "support_sla", {"no", "unclear"}) THEN 6 ELSE 0)
  + (IF AnswerIn(responses_, "support_hours", {"best-effort"}) THEN 5 ELSE 0)
  + (IF AnswerIn(responses_, "feature_changes", {"yes"}) THEN 4 ELSE 0)

\* TerminationExitScore with a notice period that cannot be parsed passed
\* over
TerminationExitScoreExceptPass(responses_) ==
  (IF AnswerIn(responses_, "termination_flexibility", {"no", "only-for-cause"}) THEN 8 ELSE 0)
  + (IF AnswerIn(responses_, "termination_fee", {"yes"}) THEN 7 ELSE 0)
  + (IF AnswerIn(responses_, "auto_renewal", {"yes"})
     THEN LET renewal_notice == ParseInt(Get(responses_, "renewal_notice", "0"))
          IN  IF renewal_notice = << >> THEN 0
              ELSE IF renewal_notice[1] > 60 THEN 5
              ELSE IF renewal_notice[1] > 30 THEN 3
              ELSE 0
     ELSE 0)

\* Termination/Exit scoring
TerminationExitScore(responses_) ==
  (IF AnswerIn(responses_, "termination_flexibility", {"no", "only-for-cause"}) THEN 8 ELSE 0)
  + (IF AnswerIn(responses_, "termination_fee", {"yes"}) THEN 7 ELSE 0)
  + (IF AnswerIn(responses_, "auto_renewal", {"yes"})
     THEN LET renewal_notice == ParseInt(Get(responses_, "renewal_notice", "0"))
          IN  IF renewal_notice = << >> THEN 4
              ELSE IF renewal_notice[1] > 60 THEN 5
              ELSE IF renewal_notice[1] > 30 THEN 3
              ELSE 0
     ELSE 0)

\* ServiceLevelScore with the uptime and credits answers scored also when
\* there is no SLA
ServiceLevelScoreNoElse(responses_) ==
  (IF AnswerIn(responses_, "sla_exists", {"no", "unclear"}) THEN 15 ELSE 0)
  + (LET uptime == ParseFloat(Get(responses_, "uptime_percentage", "0"))
     IN  IF uptime = << >> THEN 10
         ELSE IF FloatLess(uptime[1], 990, 10) THEN 8
         ELSE IF FloatLess(uptime[1], 995, 10) THEN 5
         ELSE IF FloatLess(uptime[1], 999, 10) THEN 3
         ELSE 0)
  + (IF AnswerIn(responses_, "sla_credits", {"no", "unclear"}) THEN 5 ELSE 0)
  + (IF AnswerIn(responses_, "liability_cap", {"yes"}) THEN 5 ELSE 0)

\* Service Level scoring
ServiceLevelScore(responses_) ==
  (IF AnswerIn(responses_, "sla_exists", {"no", "unclear"}) THEN 15
   ELSE (LET uptime == ParseFloat(Get(responses_, "uptime_percentage", "0"))
         IN  IF uptime = << >> THEN 10
             ELSE IF FloatLess(uptime[1], 990, 10) THEN 8
             ELSE IF FloatLess(uptime[1], 995, 10) THEN 5
             ELSE IF FloatLess(uptime[1], 999, 10) THEN 3
             ELSE 0)
        + (IF AnswerIn(responses_, "sla_credits", {"no", "unclear"}) THEN 5 ELSE 0))
  + (IF AnswerIn(responses_, "liability_cap", {"yes"}) THEN 5 ELSE 0)

\* max_points of calculate_risk_from_questionnaire
QuestionnaireMaxPoints ==
  [ data_portability |-> 15, pricing_terms |-> 25, support_obligations |-> 15,
    termination_exit |-> 20, service_level |-> 25 ]

\* QuestionnaireRiskLevel with the boundaries left to the tier above
QuestionnaireRiskLevelBelow(total_score) ==
  IF total_score < 33 THEN "LOW"
  ELSE IF total_score < 66 THEN "MEDIUM"
  ELSE "HIGH"

\* the tiers of calculate_risk_from_questionnaire
QuestionnaireRiskLevel(total_score) ==
  IF total_score <= 33 THEN "LOW"
  ELSE IF total_score <= 66 THEN "MEDIUM"
  ELSE "HIGH"

\* category_scores of calculate_risk_from_questionnaire once the answers are
\* scored
QuestionnaireCategoryScores(responses_) ==
  [ data_portability    |-> DataPortabilityScore(responses_),
    pricing_terms       |-> PricingTermsScore(responses_),
    support_obligations |-> SupportObligationsScore(responses_),
    termination_exit    |-> TerminationExitScore(responses_),
    service_level       |-> ServiceLevelScore(responses_) ]

\* calculate_risk_from_questionnaire from total_score on; percentage is in
\* tenths of a percent
QuestionnaireResult(responses_, category_scores) ==
  LET total_score ==
        category_scores.data_portability + category_scores.pricing_terms
        + category_scores.support_obligations + category_scores.termination_exit
        + category_scores.service_level
  IN  [ vendor_name      |-> Get(responses_, "vendor_name", "Unknown Vendor"),
        total_score      |-> total_score,
        risk_level       |-> QuestionnaireRiskLevel(total_score),
        category_scores  |-> category_scores,
        category_details |->
          [ c \in DOMAIN category_scores |->
              [ score            |-> category_scores[c],
                max_points       |-> QuestionnaireMaxPoints[c],
                percentage       |-> IF QuestionnaireMaxPoints[c] > 0
                                     THEN Round(category_scores[c] * 1000, QuestionnaireMaxPoints[c], FALSE)
                                     ELSE 0,
                clause_count     |-> 0,
                high_risk_count  |-> 0,
                missing_coverage |-> FALSE ] ],
        total_clauses    |-> 0,
        questionnaire_responses |-> responses_ ]

\* calculate_risk_from_questionnaire
CalculateRiskFromQuestionnaire(responses_) ==
  QuestionnaireResult(responses_, QuestionnaireCategoryScores(responses_))

(***************************************************************************)
(* Interactive questionnaire: calculate_risk_from_responses of             *)
(* code/interactive_assessment.py                                          *)
(***************************************************************************)

\* self.responses.get(key, '').lower() in options
ResponseIn(responses_, key, options) ==
  Lower(Get(responses_, key, "")) \in options

\* Data Portability scoring of calculate_risk_from_responses
ResponsesDataPortability(responses_) ==
  (IF ResponseIn(responses_, "data_export", {"no", "unclear"}) THEN 5 ELSE 0)
  + (IF ResponseIn(responses_, "data_format", {"no", "unclear"}) THEN 4 ELSE 0)
  + (IF ResponseIn(responses_, "api_access", {"no", "unclear"}) THEN 3 ELSE 0)
  + (IF ResponseIn(responses_, "post_termination_access", {"no", "unclear"}) THEN 3 ELSE 0)

\* Pricing Terms scoring of calculate_risk_from_responses
ResponsesPricingTerms(responses_) ==
  (IF ResponseIn(responses_, "price_lock", {"no", "unclear"}) THEN 8 ELSE 0)
  + (IF ResponseIn(responses_, "price_increase", {"yes"})
     THEN 10
          + (IF ResponseIn(responses_, "price_increase_cap", {"no", "unclear"}) THEN 5 ELSE 0)
          + (LET notice_days == ParseInt(Get(responses_, "price_notice", "0"))
             IN  IF notice_days # << >> /\ notice_days[1] < 30 THEN 2 ELSE 0)
     ELSE 0)

\* Support Obligations scoring of calculate_risk_from_responses
ResponsesSupportObligations(responses_) ==
  (IF ResponseIn(responses_, "support_sla", {"no", "unclear"}) THEN 6 ELSE 0)
  + (IF ResponseIn(responses_, "support_hours", {"best-effort"}) THEN 5 ELSE 0)
  + (IF ResponseIn(responses_, "feature_changes", {"yes"}) THEN 4 ELSE 0)

\* ResponsesTerminationExit with the notice period compared from 60 and 30
\* days on
ResponsesTerminationExitFrom(responses_) ==
  (IF ResponseIn(responses_, "termination_flexibility", {"no", "only-for-cause"}) THEN 8 ELSE 0)
  + (IF ResponseIn(responses_, "termination_fee", {"yes"}) THEN 7 ELSE 0)
  + (IF ResponseIn(responses_, "auto_renewal", {"yes"})
     THEN LET renewal_notice == ParseInt(Get(responses_, "renewal_notice", "0"))
          IN  IF renewal_notice = << >> THEN 4
              ELSE IF renewal_notice[1] >= 60 THEN 5
              ELSE IF renewal_notice[1] >= 30 THEN 3
              ELSE 0
     ELSE 0)

\* Termination/Exit scoring of calculate_risk_from_responses
ResponsesTerminationExit(responses_) ==
  (IF ResponseIn(responses_, "termination_flexibility", {"no", "only-for-cause"}) THEN 8 ELSE 0)
  + (IF ResponseIn(responses_, "termination_fee", {"yes"}) THEN 7 ELSE 0)
  + (IF ResponseIn(responses_, "auto_renewal", {"yes"})
     THEN LET renewal_notice == ParseInt(Get(responses_, "renewal_notice", "0"))
          IN  IF renewal_notice = << >> THEN 4
              ELSE IF renewal_notice[1] > 60 THEN 5
              ELSE IF renewal_notice[1] > 30 THEN 3
              ELSE 0
     ELSE 0)

\* Service Level scoring of calculate_risk_from_responses
ResponsesServiceLevel(responses_) ==
  (IF ResponseIn(responses_, "sla_exists", {"no", "unclear"}) THEN 15
   ELSE (LET uptime == ParseFloat(Get(responses_, "uptime_percentage", "0"))
         IN  IF uptime = << >> THEN 10
             ELSE IF FloatLess(uptime[1], 990, 10) THEN 8
             ELSE IF FloatLess(uptime[1], 995, 10) THEN 5
             ELSE IF FloatLess(uptime[1], 999, 10) THEN 3
             ELSE 0)
        + (IF ResponseIn(responses_, "sla_credits", {"no", "unclear"}) THEN 5 ELSE 0))
  + (IF ResponseIn(responses_, "liability_cap", {"yes"}) THEN 5 ELSE 0)

\* category_scores of calculate_risk_from_responses once the answers are
\* scored
ResponsesCategoryScores(responses_) ==
  [ data_portability    |-> ResponsesDataPortability(responses_),
    pricing_terms       |-> ResponsesPricingTerms(responses_),
    support_obligations |-> ResponsesSupportObligations(responses_),
    termination_exit    |-> ResponsesTerminationExit(responses_),
    service_level       |-> ResponsesServiceLevel(responses_) ]

\* the tiers of calculate_risk_from_responses
ResponsesRiskLevel(total_score) ==
  IF total_score <= 33 THEN "LOW"
  ELSE IF total_score <= 66 THEN "MEDIUM"
  ELSE "HIGH"

\* calculate_risk_from_responses from total_score on; a missing vendor_name
\* or business_criticality is None, written << >>
ResponsesResult(responses_, category_scores) ==
  LET total_score ==
        category_scores.data_portability + category_scores.pricing_terms
        + category_scores.support_obligations + category_scores.termination_exit
        + category_scores.service_level
  IN  [ vendor_name          |-> Get(responses_, "vendor_name", << >>),
        total_score          |-> total_score,
        risk_level           |-> ResponsesRiskLevel(total_score),
        category_scores      |-> category_scores,
        max_points           |->
          [ data_portability |-> 15, pricing_terms |-> 25, support_obligations |-> 15,
            termination_exit |-> 20, service_level |-> 25 ],
        business_criticality |-> Get(responses_, "business_criticality", << >>),
        questionnaire_responses |-> responses_ ]

\* calculate_risk_from_responses, for the answers in self.responses
CalculateRiskFromResponses(responses_) ==
  ResponsesResult(responses_, ResponsesCategoryScores(responses_))

(***************************************************************************)
(* State                                                                   *)
(***************************************************************************)

VARIABLES
  analyzer,     \* ContractAnalyzer instance: clause_categories, lock_in_patterns
  scorer,       \* ContractScorer instance: category_weights, lock_in_multipliers, risk_thresholds
  text,         \* the contract text handed to find_clauses
  vendor_name,  \* its vendor name
  file_name,    \* its file name
  clauses,      \* the clause list: the result of find_clauses, or the list handed to score_contract
  report,       \* <<r>> where r is the result of score_contract(clauses), << >> before
  fp_tie,       \* category -> TRUE when the last round() of a tie came out at the upper neighbour
  first,        \* <<a>> where a is the first completed assessment, << >> before
  mechanism,    \* <<m>> where m is the last direct _identify_lock_in_mechanism call, << >> before
  runs,         \* number of score_contract calls completed
  step,         \* "start", "found" (clauses belong to text), "scored" (report belongs to clauses); "batch", "returned" for assess_multiple_contracts
  fs,             \* the files: path -> <<content>>, or << >> where there is no file
  contract_files, \* the list handed to assess_multiple_contracts
  assessments,    \* the list assess_multiple_contracts builds
  attempted,      \* the entries of contract_files the loop has handed to assess_contract_file
  requests,       \* the /api/assess/upload requests: id -> upload, position and locals of the handler, response
  responses,      \* the answers handed to calculate_risk_from_questionnaire
  questionnaire,  \* <<r>> where r is its result, << >> before
  sections,       \* <<s>> where s is the result of _split_into_sections(text), << >> before
  risk_analysis,  \* <<r>> where r is the result of calculate_risk_from_responses on responses, << >> before
  comparison      \* <<c>> where c is the result of generate_comparison_report(assessments), << >> before

\* the state outside the calls of find_clauses and score_contract
engine_vars ==
  <<fs, contract_files, assessments, attempted, requests, responses, questionnaire, sections, risk_analysis, comparison>>

vars ==
  <<analyzer, scorer, text, vendor_name, file_name, clauses, report, fp_tie, first, mechanism, runs, step,
    fs, contract_files, assessments, attempted, requests, responses, questionnaire, sections, risk_analysis, comparison>>

(***************************************************************************)
(* Inputs                                                                  *)
(***************************************************************************)

\* 105 characters that match no keyword, phrase or pattern of any table
Pad ==
  "the parties agree that this paragraph is here only to make the section long enough for the analysis run. "

\* two keywords and a required phrase of every category, nothing negative
ParAll ==
  "Data Export and data migration. Pricing and fees. Technical support and maintenance. Termination and cancellation. Uptime and Availability."

\* service_level with a negative keyword, three of its mechanisms match;
\* two pricing_terms keywords without a required phrase of pricing_terms
ParSla ==
  "The SLA covers uptime: service credits only, shown on the invoice after billing, are the sole remedy, on a best effort basis."

\* pricing_terms with a negative keyword; two of its mechanisms match
ParPrice ==
  Pad \o "We may increase pricing and fees at our sole discretion."

\* termination_exit with a negative keyword
ParExit ==
  Pad \o "Termination before renewal incurs an early termination fee."

\* four categories, service_level missing: scores 2.25, 3.75, 5.25, 10 and 12.5
ParGap ==
  "Data export and data migration. Pricing and fees. Technical support and maintenance can suspend. Termination and cancellation with an early termination fee."

\* would qualify for service_level, shorter than a section
ParShort ==
  "No SLA: uptime and availability are as available."

Paragraphs ==
  { ParAll, ParSla, ParPrice, ParExit, ParGap,
    \* data_portability, a mechanism without multiplier, no negative keyword
    Pad \o "Data export and bulk export are offered through a limited api.",
    \* data_portability, a mechanism without multiplier, a negative keyword
    Pad \o "Api access and data export: no api access is offered.",
    \* data_portability, the other mechanism without multiplier, a negative
    \* keyword
    Pad \o "Data export and bulk export: limited export only.",
    \* data_portability, the other mechanism without multiplier, no negative
    \* keyword
    Pad \o "Data export is offered, no bulk export.",
    \* two data_portability keywords, no required phrase
    Pad \o "Data transfer and data backup are included.",
    \* a required phrase and one keyword of service_level
    Pad \o "Uptime is monitored.",
    \* nothing
    Pad,
    ParShort }

\* the paragraphs that open a text of two paragraphs
Leads ==
  {ParAll, ParSla}

\* the paragraphs that close a text of two paragraphs
Followers ==
  {ParAll, ParSla, ParExit}

\* what stands between two paragraphs
Separators ==
  {"\n\n", "\n", "\n2. ", "\nGENERAL TERMS\n", " "}

\* four sections for the primary split, ended by a blank line
Preamble ==
  Pad \o "One." \o "\n\n" \o ParPrice \o "\n\n\n" \o Pad \o "Three." \o "\n7." \o ParExit \o "\n\n"

\* the paragraphs that follow the preamble: with a long one the primary split
\* gives five sections, with the short one it gives four
Closings ==
  {ParAll, ParSla, Pad, ParShort}

Texts ==
  Paragraphs
    \cup {p \o sep \o q : p \in Leads, sep \in Separators, q \in Followers}
    \cup {Preamble \o p : p \in Closings}

\* the contract the first assessment is about is drawn from Texts; it has
\* this vendor and file
FirstContract ==
  [file_name |-> "acme_tos.html", vendor_name |-> "Acme"]

\* the contract assessed between two assessments of the first one
OtherContract ==
  [text |-> ParSla \o "\n" \o ParPrice, file_name |-> "zeta_cloud_terms.html", vendor_name |-> "Zeta Cloud"]

\* assessments per run of the model
MaxRuns == 3
\* clause lists handed to score_contract directly have at most MaxClauses
\* clauses of ClausePool
MaxClauses == 2
\* multipliers 1.0 and 0.7, and a label without multiplier
PoolMechanisms ==
  {"no_sla", "automatic_renewal", "no_api_access"}

PoolClause(c, r, m) ==
  [ clause_id         |-> "Acme_1",
    vendor_name       |-> "Acme",
    contract_file     |-> "acme_tos.html",
    clause_category   |-> c,
    clause_text       |-> "",
    risk_level        |-> r,
    lock_in_mechanism |-> m,
    keyword_matches   |-> 2 ]

\* High and Medium clauses of every category, a clause of no category and a
\* clause of another risk level
ClausePool ==
  {PoolClause(c, r, m) : c \in Categories, r \in {"High", "Medium"}, m \in PoolMechanisms}
    \cup {PoolClause("uncategorized", "High", "no_sla"), PoolClause("service_level", "Low", "standard")}

\* one Medium clause with the mechanism "standard" for each category: the
\* lowest penalty in every category
StandardClauses ==
  [k \in 1..Len(CATEGORY_WEIGHTS) |-> PoolClause(CATEGORY_WEIGHTS[k].category, "Medium", "standard")]

\* the lists of at most MaxClauses clauses of the pool, and StandardClauses
ClauseLists ==
  UNION {[1..n -> ClausePool] : n \in 0..MaxClauses} \cup {StandardClauses}

\* every pattern of the mechanism tables
AllPatterns ==
  UNION { UNION { {LOCK_IN_PATTERNS[c].mechanisms[m].patterns[p] :
                     p \in 1..Len(LOCK_IN_PATTERNS[c].mechanisms[m].patterns)} :
                  m \in 1..Len(LOCK_IN_PATTERNS[c].mechanisms) } :
          c \in 1..Len(LOCK_IN_PATTERNS) }

\* texts handed to _identify_lock_in_mechanism directly: a pattern, two
\* patterns in either order, a pattern in capitals, and text without pattern
MechanismTexts ==
  AllPatterns
    \cup {p \o ", " \o q : p \in AllPatterns, q \in AllPatterns}
    \cup {"NO SLA", "", "the service is provided"}

\* the first n characters of Pad repeated
RECURSIVE Filler(_)
Filler(n) ==
  IF n <= Len(Pad) THEN SubSeq(Pad, 1, n) ELSE Pad \o Filler(n - Len(Pad))

\* a contract of exactly 1000 characters on one line: a High service_level
\* clause
Long1000 ==
  ParSla \o " " \o Filler(874)

\* a contract of 1004 characters on one line, of which no category has a
\* required phrase with two keywords
LongPlain ==
  Filler(1002) \o ". "

\* 1007 characters that extract_text_from_html cleans to 995
Padded ==
  "  " \o SubSeq(Long1000, 1, 500) \o "  \n  " \o SubSeq(Long1000, 502, 995) \o "      "

\* a contract of five paragraphs, more than 1000 characters in all: the
\* first qualifies for every category, the second for service_level, the
\* third for pricing_terms
MultiParagraph ==
  ParAll \o "\n\n" \o ParSla \o "\n\n" \o ParPrice \o "\n" \o Filler(400) \o "\n2. " \o Filler(300) \o "\n"

\* the files the batch reads; contracts/gone.html does not exist
BatchFiles ==
  [ p \in {"contracts/acme_tos.html", "contracts/zeta_cloud_terms.html", "contracts/notes.html",
           "contracts/padded.html", "contracts/multi_terms.html", "contracts/gone.html"} |->
      CASE p = "contracts/acme_tos.html"         -> <<Long1000>>
        [] p = "contracts/multi_terms.html"      -> <<MultiParagraph>>
        [] p = "contracts/zeta_cloud_terms.html" -> <<SubSeq(Long1000, 1, 999)>>
        [] p = "contracts/notes.html"            -> <<LongPlain>>
        [] p = "contracts/padded.html"           -> <<Padded>>
        [] OTHER                                 -> << >> ]

\* two more contracts of one line each: one with a clause of the lowest
\* penalty in every category, 15 points in all, and one with "High" clauses
\* in four categories, 75 points in all
ComparisonFiles ==
  [ p \in {"contracts/low_terms.html", "contracts/high_terms.html"} |->
      IF p = "contracts/low_terms.html"
      THEN <<ParAll \o " " \o Filler(900)>>
      ELSE <<ParSla \o " " \o ParPrice \o " " \o ParExit \o " "
             \o "Api access and data export: no api access is offered. " \o Filler(600)>> ]

\* an entry of contract_files: <<path>>, or << >> for an entry that is no
\* path at all (None), on which Path(file_path) raises TypeError
FileEntries ==
  {<<p>> : p \in DOMAIN BatchFiles} \cup {<< >>}

\* contract_files has at most MaxFiles entries
MaxFiles == 2

\* a directory of eight contracts: seven can be assessed, with totals that
\* are not in order, and one yields no clause
ComparedFiles ==
  << <<"contracts/high_terms.html">>, <<"contracts/acme_tos.html">>, <<"contracts/notes.html">>,
     <<"contracts/low_terms.html">>, <<"contracts/multi_terms.html">>, <<"contracts/high_terms.html">>,
     <<"contracts/low_terms.html">>, <<"contracts/acme_tos.html">> >>

FileLists ==
  UNION {[1..n -> FileEntries] : n \in 0..MaxFiles} \cup {ComparedFiles}

NoTie ==
  [c \in Categories |-> FALSE]

NewAnalyzer ==
  [clause_categories |-> CLAUSE_CATEGORIES, lock_in_patterns |-> LOCK_IN_PATTERNS]

NewScorer ==
  [ category_weights    |-> CATEGORY_WEIGHTS,
    lock_in_multipliers |-> LOCK_IN_MULTIPLIERS,
    risk_thresholds     |-> RISK_THRESHOLDS ]

\* the names of the uploaded files that pass allowed_file: the first two
\* have the same sanitized name
UploadNames ==
  {"acme tos.html", "acme_tos.html", "zeta.HTM"}

\* the contents of the uploaded files: one with a clause, one without
UploadContents ==
  {Long1000, LongPlain}

\* request.files of an upload request: << >> without the field 'contract',
\* else the file of the field
Uploads ==
  {<< >>, <<[filename |-> "", content |-> ""]>>, <<[filename |-> "notes.txt", content |-> LongPlain]>>}
  \cup {<<[filename |-> n, content |-> c]>> : n \in UploadNames, c \in UploadContents}

\* the paths under UPLOAD_FOLDER the requests write to
UploadPaths ==
  {UploadPath(n) : n \in UploadNames}

\* upload requests in flight at the same time
MaxRequests == 2

\* a request the server has received and not begun to handle
NewRequest(files) ==
  [files |-> files, pc |-> "received", filepath |-> "", assessment |-> << >>, response |-> << >>]

\* the files of the inputs, as pairs of path and content
KnownFiles ==
  {<<p, BatchFiles[p][1]>> : p \in {q \in DOMAIN BatchFiles : BatchFiles[q] # << >>}}
  \cup (UploadPaths \X UploadContents)

\* what analyze_contract_file returns for the files of the inputs, worked
\* out once: pairs of a file and its clause list
KnownAnalysis ==
  {<<f, AnalyzeContractFile(NewAnalyzer, [p \in {f[1]} |-> <<f[2]>>], f[1])>> : f \in KnownFiles}

\* analyze_contract_file, looked up for the files of the inputs
AnalyzeFile(a, files, file_path) ==
  IF /\ a = NewAnalyzer
     /\ files[file_path] # << >>
     /\ <<file_path, files[file_path][1]>> \in KnownFiles
  THEN (CHOOSE known \in KnownAnalysis : known[1] = <<file_path, files[file_path][1]>>)[2]
  ELSE AnalyzeContractFile(a, files, file_path)

\* RiskAssessmentEngine.__init__, before any call
Fresh ==
  /\ analyzer = NewAnalyzer
  /\ scorer = NewScorer
  /\ report = << >>
  /\ fp_tie = NoTie
  /\ first = << >>
  /\ mechanism = << >>
  /\ runs = 0

\* no file, no batch, no request, no questionnaire, no split
Idle ==
  /\ fs = << >>
  /\ contract_files = << >>
  /\ assessments = << >>
  /\ attempted = << >>
  /\ requests = << >>
  /\ responses = << >>
  /\ questionnaire = << >>
  /\ sections = << >>
  /\ risk_analysis = << >>
  /\ comparison = << >>

\* find_clauses and score_contract are not called on their own
NoDirectCalls ==
  /\ text = ""
  /\ vendor_name = ""
  /\ file_name = ""
  /\ clauses = << >>

\* assess_multiple_contracts is called: the list of results is empty and the
\* loop is at the first entry
InitBatch ==
  /\ Fresh
  /\ NoDirectCalls
  /\ step = "batch"
  /\ fs = BatchFiles @@ ComparisonFiles
  /\ contract_files \in FileLists
  /\ assessments = << >>
  /\ attempted = << >>
  /\ requests = << >>
  /\ responses = << >>
  /\ questionnaire = << >>
  /\ sections = << >>
  /\ risk_analysis = << >>
  /\ comparison = << >>

\* the server has received MaxRequests upload requests; UPLOAD_FOLDER is
\* empty
InitUpload ==
  /\ Fresh
  /\ NoDirectCalls
  /\ step = "idle"
  /\ fs = [p \in UploadPaths |-> << >>]
  /\ requests \in [1..MaxRequests -> {NewRequest(u) : u \in Uploads}]
  /\ contract_files = << >>
  /\ assessments = << >>
  /\ attempted = << >>
  /\ responses = << >>
  /\ questionnaire = << >>
  /\ sections = << >>
  /\ risk_analysis = << >>
  /\ comparison = << >>

\* an answer is <<string>>, or << >> for a question left out
YesNo ==
  {<< >>, <<"yes">>, <<"No">>, <<"unclear">>}

\* the answers to the questions of one category, question -> answers drawn
QuestionnaireAnswers ==
  [ data_portability |->
      [ data_export |-> YesNo, data_format |-> YesNo, api_access |-> YesNo,
        post_termination_access |-> YesNo ],
    pricing_terms |->
      [ price_lock         |-> {<< >>, <<"yes">>, <<"Unclear">>},
        price_increase     |-> {<< >>, <<"YES">>, <<"no">>},
        price_increase_cap |-> {<< >>, <<"yes">>, <<"no">>},
        price_notice       |-> {<< >>, <<"29">>, <<"30">>, <<" 7 ">>, <<"-1">>, <<"a month">>, <<"">>} ],
    support_obligations |->
      [ support_sla     |-> YesNo,
        support_hours   |-> {<< >>, <<"24x7">>, <<"Best-Effort">>, <<"business-hours">>},
        feature_changes |-> YesNo ],
    termination_exit |->
      [ termination_flexibility |-> {<< >>, <<"yes">>, <<"no">>, <<"Only-For-Cause">>},
        termination_fee         |-> {<< >>, <<"yes">>, <<"no">>},
        auto_renewal            |-> {<< >>, <<"Yes">>, <<"no">>},
        renewal_notice          |-> {<< >>, <<"30">>, <<"31">>, <<"60">>, <<"61">>, <<"90 days">>} ],
    service_level |->
      [ sla_exists        |-> {<< >>, <<"yes">>, <<"no">>, <<"Unclear">>},
        uptime_percentage |-> {<< >>, <<"98.99">>, <<"99.0">>, <<"99.49">>, <<"99.5">>, <<"99.9">>,
                               <<"100">>, <<"nan">>, <<"three nines">>},
        sla_credits       |-> {<< >>, <<"yes">>, <<"no">>},
        liability_cap     |-> {<< >>, <<"Yes">>, <<"no">>} ] ]

\* the answers that score nothing and the answers that score most, question
\* -> answer
LowestAnswers ==
  [ data_portability    |-> [data_export |-> "yes"],
    pricing_terms       |-> [price_lock |-> "yes", price_increase |-> "no"],
    support_obligations |-> [support_sla |-> "yes", support_hours |-> "24x7"],
    termination_exit    |-> [termination_flexibility |-> "yes", auto_renewal |-> "no"],
    service_level       |-> [sla_exists |-> "yes", uptime_percentage |-> "99.95", sla_credits |-> "yes"] ]

HighestAnswers ==
  [ data_portability    |-> [ data_export |-> "no", data_format |-> "no", api_access |-> "unclear",
                              post_termination_access |-> "no" ],
    pricing_terms       |-> [ price_lock |-> "no", price_increase |-> "yes", price_increase_cap |-> "no",
                              price_notice |-> "14" ],
    support_obligations |-> [ support_sla |-> "no", support_hours |-> "best-effort",
                              feature_changes |-> "yes" ],
    termination_exit    |-> [ termination_flexibility |-> "no", termination_fee |-> "yes",
                              auto_renewal |-> "yes", renewal_notice |-> "90" ],
    service_level       |-> [ sla_exists |-> "no", liability_cap |-> "yes" ] ]

\* answers that score 32 in all: with data_portability left to vary the
\* totals run from 27 to 42, across the boundary between 33 and 34
LowerMiddleAnswers ==
  [ data_portability    |-> [data_export |-> "no"],
    pricing_terms       |-> [price_lock |-> "no", price_increase |-> "no"],
    support_obligations |-> [support_sla |-> "no", support_hours |-> "24x7"],
    termination_exit    |-> [termination_flexibility |-> "no", auto_renewal |-> "no"],
    service_level       |-> [sla_exists |-> "yes", uptime_percentage |-> "99.95", sla_credits |-> "no"] ]

\* answers that score 69 in all: with termination_exit left to vary the
\* totals run from 54 to 74, across the boundary between 66 and 67
UpperMiddleAnswers ==
  [ data_portability    |-> [ data_export |-> "no", data_format |-> "no", api_access |-> "no",
                              post_termination_access |-> "no" ],
    pricing_terms       |-> [ price_lock |-> "no", price_increase |-> "yes", price_increase_cap |-> "no",
                              price_notice |-> "30" ],
    support_obligations |-> [support_sla |-> "no", support_hours |-> "24x7"],
    termination_exit    |-> [termination_flexibility |-> "no", termination_fee |-> "yes"],
    service_level       |-> [ sla_exists |-> "yes", uptime_percentage |-> "99.95", sla_credits |-> "no",
                              liability_cap |-> "yes" ] ]

\* answers whose three numbers cannot be parsed, each where it is read
GarbledAnswers ==
  [ data_portability    |-> [data_export |-> "yes"],
    pricing_terms       |-> [ price_lock |-> "yes", price_increase |-> "yes", price_increase_cap |-> "yes",
                              price_notice |-> "one month" ],
    support_obligations |-> [support_sla |-> "yes", support_hours |-> "24x7"],
    termination_exit    |-> [ termination_flexibility |-> "yes", auto_renewal |-> "yes",
                              renewal_notice |-> "12.5" ],
    service_level       |-> [sla_exists |-> "yes", uptime_percentage |-> "99,9", sla_credits |-> "yes"] ]

\* the dictionaries that answer the questions of qs with one of the answers
\* drawn for each and leave out the questions answered << >>
Answered(qs) ==
  LET choices == {f \in [DOMAIN qs -> UNION {qs[q] : q \in DOMAIN qs}] :
                    \A q \in DOMAIN qs : f[q] \in qs[q]}
  IN  {[q \in {k \in DOMAIN f : f[k] # << >>} |-> f[q][1]] : f \in choices}

\* the five dictionaries of d, one per category, as one dictionary
Merged(d) ==
  d["data_portability"] @@ d["pricing_terms"] @@ d["support_obligations"]
  @@ d["termination_exit"] @@ d["service_level"]

\* the questionnaires: every combination of answers to the questions of one
\* category, with the other categories all at their lowest, all at their
\* highest, at one of the two sets of answers in between, or with numbers
\* that cannot be parsed, with and without a vendor name
Questionnaires ==
  UNION {
    { Merged([c \in Categories |-> IF c = focus THEN a ELSE rest[c]]) @@ v :
        a \in Answered(QuestionnaireAnswers[focus]),
        rest \in {LowestAnswers, LowerMiddleAnswers, UpperMiddleAnswers, HighestAnswers,
                  GarbledAnswers},
        v \in {<< >>, [vendor_name |-> "Acme"]} } :
    focus \in Categories }

\* the server is about to score a questionnaire
InitQuestionnaire ==
  /\ Fresh
  /\ NoDirectCalls
  /\ step = "idle"
  /\ responses \in Questionnaires
  /\ questionnaire = << >>
  /\ fs = << >>
  /\ contract_files = << >>
  /\ assessments = << >>
  /\ attempted = << >>
  /\ requests = << >>
  /\ sections = << >>
  /\ risk_analysis = << >>
  /\ comparison = << >>

\* a piece of n characters that begins with tag and ends with a full stop
Piece(tag, n) ==
  tag \o Filler(n - 2) \o "."

\* the pieces the texts to split are made of: 101 characters, 100
\* characters, and 100 characters between blanks
SplitPieces ==
  {Piece("w", 101), Piece("x", 100), " " \o Piece("z", 100) \o " "}

\* what stands between two pieces: an empty line, a line end, a line end
\* and a section number
SplitSeparators ==
  {"\n\n", "\n", "\n3."}

\* a text has at most MaxPieces pieces
MaxPieces == 5

SplitTexts ==
  {Join(ps, sep) : ps \in UNION {[1..n -> SplitPieces] : n \in 1..MaxPieces}, sep \in SplitSeparators}

\* a text is about to be split
InitSplit ==
  /\ Fresh
  /\ text \in SplitTexts
  /\ vendor_name = ""
  /\ file_name = ""
  /\ clauses = << >>
  /\ step = "idle"
  /\ sections = << >>
  /\ risk_analysis = << >>
  /\ comparison = << >>
  /\ fs = << >>
  /\ contract_files = << >>
  /\ assessments = << >>
  /\ attempted = << >>
  /\ requests = << >>
  /\ responses = << >>
  /\ questionnaire = << >>

\* a contract text is about to be analysed
Init ==
  /\ Fresh
  /\ Idle
  /\ text \in Texts
  /\ vendor_name = FirstContract.vendor_name
  /\ file_name = FirstContract.file_name
  /\ clauses = << >>
  /\ step = "start"

\* a clause list is about to be scored
InitScorer ==
  /\ Fresh
  /\ Idle
  /\ text = ""
  /\ vendor_name = FirstContract.vendor_name
  /\ file_name = FirstContract.file_name
  /\ clauses \in ClauseLists
  /\ step = "found"

\* a text is about to be classified
InitMechanism ==
  /\ Fresh
  /\ Idle
  /\ text \in MechanismTexts
  /\ vendor_name = FirstContract.vendor_name
  /\ file_name = FirstContract.file_name
  /\ clauses = << >>
  /\ step = "start"

\* categories whose score is an exact tie between two hundredths
TieCategories(self, cl) ==
  { self.category_weights[k].category : k \in
      { j \in 1..Len(self.category_weights) :
          LET cc == CategoryClauses(cl, self.category_weights[j].category)
              n  == Len(cc)
          IN  /\ n > 0
              /\ 2 * ((self.category_weights[j].max_points
                        * PenaltyLoop(self, cc, 1, 0, 0).total_penalty) % (2 * n)) = 2 * n } }

\* FindClauses with clause_id carried over from the call before
FindClausesKeepCounter ==
  /\ step = "start"
  /\ clauses' = FindLoop(analyzer, SplitIntoSections(text), vendor_name, file_name,
                         1, 1, Len(clauses), <<>>)
  /\ step' = "found"
  /\ UNCHANGED <<analyzer, scorer, text, vendor_name, file_name, report, fp_tie, first, mechanism, runs>>
  /\ UNCHANGED engine_vars

\* find_clauses(text, vendor_name, file_name)
FindClauses ==
  /\ step = "start"
  /\ clauses' = FindClausesOf(analyzer, text, vendor_name, file_name)
  /\ step' = "found"
  /\ UNCHANGED <<analyzer, scorer, text, vendor_name, file_name, report, fp_tie, first, mechanism, runs>>
  /\ UNCHANGED engine_vars

\* ScoreContract clearing keyword_matches in the clauses it has scored
ScoreContractClearing ==
  /\ step = "found"
  /\ \E up \in SUBSET TieCategories(scorer, clauses) :
       LET fp == [c \in Categories |-> c \in up]
           r  == ScoreContractOf(scorer, clauses, fp)
       IN  /\ (first # << >> /\ first[1].clauses = clauses) => fp = first[1].fp_tie
           /\ fp_tie' = fp
           /\ report' = <<r>>
           /\ first' = IF first = << >>
                       THEN << [ text |-> text, vendor_name |-> vendor_name,
                                 file_name |-> file_name, clauses |-> clauses,
                                 fp_tie |-> fp, report |-> r ] >>
                       ELSE first
  /\ step' = "scored"
  /\ runs' = runs + 1
  /\ clauses' = [k \in 1..Len(clauses) |-> [clauses[k] EXCEPT !.keyword_matches = 0]]
  /\ UNCHANGED <<analyzer, scorer, text, vendor_name, file_name, mechanism>>
  /\ UNCHANGED engine_vars

\* score_contract(clauses).  Floating point is a function of its operands:
\* the ties of a clause list scored before come out as they did then.
ScoreContract ==
  /\ step = "found"
  /\ \E up \in SUBSET TieCategories(scorer, clauses) :
       LET fp == [c \in Categories |-> c \in up]
           r  == ScoreContractOf(scorer, clauses, fp)
       IN  /\ (first # << >> /\ first[1].clauses = clauses) => fp = first[1].fp_tie
           /\ fp_tie' = fp
           /\ report' = <<r>>
           /\ first' = IF first = << >>
                       THEN << [ text |-> text, vendor_name |-> vendor_name,
                                 file_name |-> file_name, clauses |-> clauses,
                                 fp_tie |-> fp, report |-> r ] >>
                       ELSE first
  /\ step' = "scored"
  /\ runs' = runs + 1
  /\ UNCHANGED <<analyzer, scorer, text, vendor_name, file_name, clauses, mechanism>>
  /\ UNCHANGED engine_vars

\* the caller turns to its next contract: the first one again, or another
NextContract ==
  /\ step = "scored"
  /\ runs < MaxRuns
  /\ \E c \in {[text |-> first[1].text, file_name |-> first[1].file_name,
                vendor_name |-> first[1].vendor_name], OtherContract} :
       /\ text' = c.text
       /\ vendor_name' = c.vendor_name
       /\ file_name' = c.file_name
  /\ step' = "start"
  /\ UNCHANGED <<analyzer, scorer, clauses, report, fp_tie, first, mechanism, runs>>
  /\ UNCHANGED engine_vars

\* _identify_lock_in_mechanism(text, category), called on its own
IdentifyMechanism ==
  /\ step = "start"
  /\ \E category \in Categories \cup {"uncategorized"} :
       mechanism' = << [ category |-> category, text |-> text,
                         result |-> IdentifyLockInMechanism(analyzer.lock_in_patterns, text, category) ] >>
  /\ UNCHANGED <<analyzer, scorer, text, vendor_name, file_name, clauses, report, fp_tie, first, runs, step>>
  /\ UNCHANGED engine_vars

\* AssessNextFile without the except clause: the exception leaves
\* assess_multiple_contracts
AssessNextFileRaising ==
  /\ step = "batch"
  /\ Len(attempted) < Len(contract_files)
  /\ LET entry == contract_files[Len(attempted) + 1]
     IN  /\ attempted' = Append(attempted, entry)
         /\ IF entry = << >>
            THEN /\ assessments' = assessments
                 /\ step' = "raised"
            ELSE /\ step' = step
                 /\ \E up \in SUBSET TieCategories(scorer, AnalyzeFile(analyzer, fs, entry[1])) :
                      assessments' =
                        Append(assessments,
                               AssessmentOf(scorer, entry[1], AnalyzeFile(analyzer, fs, entry[1]),
                                            [c \in Categories |-> c \in up]))
  /\ UNCHANGED <<analyzer, scorer, text, vendor_name, file_name, clauses, report, fp_tie, first, mechanism, runs>>
  /\ UNCHANGED <<fs, contract_files, requests, responses, questionnaire, sections, risk_analysis, comparison>>

\* One iteration of the loop of assess_multiple_contracts: the next entry is
\* handed to assess_contract_file; its result is appended, or it raises and
\* the except clause prints and goes on.
AssessNextFile ==
  /\ step = "batch"
  /\ Len(attempted) < Len(contract_files)
  /\ LET entry == contract_files[Len(attempted) + 1]
     IN  /\ attempted' = Append(attempted, entry)
         /\ IF entry = << >>
            THEN /\ assessments' = assessments
                 /\ step' = step
            ELSE /\ step' = step
                 /\ \E up \in SUBSET TieCategories(scorer, AnalyzeFile(analyzer, fs, entry[1])) :
                      assessments' =
                        Append(assessments,
                               AssessmentOf(scorer, entry[1], AnalyzeFile(analyzer, fs, entry[1]),
                                            [c \in Categories |-> c \in up]))
  /\ UNCHANGED <<analyzer, scorer, text, vendor_name, file_name, clauses, report, fp_tie, first, mechanism, runs>>
  /\ UNCHANGED <<fs, contract_files, requests, responses, questionnaire, sections, risk_analysis, comparison>>

\* The loop of assess_multiple_contracts is through the list: the list of
\* results is returned.
ReturnAssessments ==
  /\ step = "batch"
  /\ Len(attempted) = Len(contract_files)
  /\ step' = "returned"
  /\ UNCHANGED <<analyzer, scorer, text, vendor_name, file_name, clauses, report, fp_tie, first, mechanism, runs>>
  /\ UNCHANGED <<fs, contract_files, assessments, attempted, requests, responses, questionnaire, sections, risk_analysis, comparison>>

\* main, for a directory: generate_comparison_report(assessments) on what
\* assess_multiple_contracts returned
GenerateComparison ==
  /\ step = "returned"
  /\ comparison = << >>
  /\ \E up \in SUBSET AverageTies(assessments) :
       comparison' = <<GenerateComparisonReport(assessments, [c \in Categories |-> c \in up])>>
  /\ UNCHANGED <<analyzer, scorer, text, vendor_name, file_name, clauses, report, fp_tie, first, mechanism, runs, step>>
  /\ UNCHANGED <<fs, contract_files, assessments, attempted, requests, responses, questionnaire, sections,
                 risk_analysis>>

\* assess_upload up to file.save: the checks of the request, then the file
\* is written to UPLOAD_FOLDER under its sanitized name
SaveUpload(i) ==
  /\ requests[i].pc = "received"
  /\ LET files == requests[i].files
     IN  IF UploadRejection(files) # << >>
         THEN /\ requests' = [requests EXCEPT ![i].pc = "done", ![i].response = UploadRejection(files)]
              /\ fs' = fs
         ELSE LET filepath == UploadPath(files[1].filename)
              IN  /\ fs' = [fs EXCEPT ![filepath] = <<files[1].content>>]
                  /\ requests' = [requests EXCEPT ![i].pc = "saved", ![i].filepath = filepath]
  /\ UNCHANGED <<analyzer, scorer, text, vendor_name, file_name, clauses, report, fp_tie, first, mechanism, runs, step>>
  /\ UNCHANGED <<contract_files, assessments, attempted, responses, questionnaire, sections, risk_analysis, comparison>>

\* assess_upload: engine.assess_contract_file(filepath) reads whatever is at
\* filepath now
AssessUpload(i) ==
  /\ requests[i].pc = "saved"
  /\ \E up \in SUBSET TieCategories(scorer, AnalyzeFile(analyzer, fs, requests[i].filepath)) :
       requests' =
         [requests EXCEPT ![i].pc = "assessed",
                          ![i].assessment =
                            <<AssessmentOf(scorer, requests[i].filepath,
                                           AnalyzeFile(analyzer, fs, requests[i].filepath),
                                           [c \in Categories |-> c \in up])>>]
  /\ UNCHANGED <<analyzer, scorer, text, vendor_name, file_name, clauses, report, fp_tie, first, mechanism, runs, step>>
  /\ UNCHANGED <<fs, contract_files, assessments, attempted, responses, questionnaire, sections, risk_analysis, comparison>>

\* assess_upload from os.remove on: the file at filepath is deleted and the
\* response is made from the assessment; when there is no file at filepath
\* os.remove raises FileNotFoundError and the except clause answers 500
FinishUpload(i) ==
  /\ requests[i].pc = "assessed"
  /\ IF fs[requests[i].filepath] = << >>
     THEN /\ fs' = fs
          /\ requests' =
               [requests EXCEPT
                  ![i].pc = "done",
                  ![i].response =
                    <<[status |-> 500,
                       body   |-> [error |-> "[Errno 2] No such file or directory: '"
                                             \o requests[i].filepath \o "'"]]>>]
     ELSE /\ fs' = [fs EXCEPT ![requests[i].filepath] = << >>]
          /\ requests' =
               [requests EXCEPT ![i].pc = "done",
                                ![i].response = <<UploadResponse(requests[i].assessment[1])>>]
  /\ UNCHANGED <<analyzer, scorer, text, vendor_name, file_name, clauses, report, fp_tie, first, mechanism, runs, step>>
  /\ UNCHANGED <<contract_files, assessments, attempted, responses, questionnaire, sections, risk_analysis, comparison>>

\* assess_questionnaire calls calculate_risk_from_questionnaire(responses)
CalculateRisk ==
  /\ questionnaire = << >>
  /\ questionnaire' = <<CalculateRiskFromQuestionnaire(responses)>>
  /\ UNCHANGED <<analyzer, scorer, text, vendor_name, file_name, clauses, report, fp_tie, first, mechanism, runs, step>>
  /\ UNCHANGED <<fs, contract_files, assessments, attempted, requests, responses, sections, risk_analysis, comparison>>

\* run_assessment_questionnaire, once the answers are in self.responses,
\* calls calculate_risk_from_responses
RunAssessmentQuestionnaire ==
  /\ risk_analysis = << >>
  /\ risk_analysis' = <<CalculateRiskFromResponses(responses)>>
  /\ UNCHANGED <<analyzer, scorer, text, vendor_name, file_name, clauses, report, fp_tie, first, mechanism, runs, step>>
  /\ UNCHANGED <<fs, contract_files, assessments, attempted, requests, responses, questionnaire, sections,
                 comparison>>

\* _split_into_sections(text), called on its own
SplitText ==
  /\ sections = << >>
  /\ sections' = <<SplitIntoSections(text)>>
  /\ UNCHANGED <<analyzer, scorer, text, vendor_name, file_name, clauses, report, fp_tie, first, mechanism, runs, step>>
  /\ UNCHANGED <<fs, contract_files, assessments, attempted, requests, responses, questionnaire,
                 risk_analysis, comparison>>

Next ==
  \/ FindClauses
  \/ ScoreContract
  \/ NextContract

Spec ==
  Init /\ [][Next]_vars

NextScorer ==
  ScoreContract

SpecScorer ==
  InitScorer /\ [][NextScorer]_vars

NextMechanism ==
  IdentifyMechanism

SpecMechanism ==
  InitMechanism /\ [][NextMechanism]_vars

NextBatch ==
  \/ AssessNextFile
  \/ ReturnAssessments
  \/ GenerateComparison

SpecBatch ==
  InitBatch /\ [][NextBatch]_vars

\* the server handles the requests in threads of their own: any request
\* takes the next step
NextUpload ==
  \/ \E i \in DOMAIN requests : SaveUpload(i)
  \/ \E i \in DOMAIN requests : AssessUpload(i)
  \/ \E i \in DOMAIN requests : FinishUpload(i)

SpecUpload ==
  InitUpload /\ [][NextUpload]_vars

NextSplit ==
  SplitText

SpecSplit ==
  InitSplit /\ [][NextSplit]_vars

\* the same answers go to the server and to the interactive questionnaire,
\* in either order
NextQuestionnaire ==
  \/ CalculateRisk
  \/ RunAssessmentQuestionnaire

SpecQuestionnaire ==
  InitQuestionnaire /\ [][NextQuestionnaire]_vars

(***************************************************************************)
(* Properties                                                              *)
(***************************************************************************)

SetOf(seq) ==
  {seq[k] : k \in 1..Len(seq)}

\* the sections find_clauses works on, each with its lower-cased text
SectionsOf(t) ==
  LET S == SplitIntoSections(t)
  IN  [j \in 1..Len(S) |-> [section |-> S[j], lower |-> Lower(S[j])]]

\* the entry of a category in the clause detection rules
Rules(c) ==
  CLAUSE_CATEGORIES[CHOOSE k \in 1..Len(CLAUSE_CATEGORIES) : CLAUSE_CATEGORIES[k].category = c]

RuleCategories ==
  {CLAUSE_CATEGORIES[k].category : k \in 1..Len(CLAUSE_CATEGORIES)}

\* position of a category in the clause detection rules
RulePosition(c) ==
  CHOOSE k \in 1..Len(CLAUSE_CATEGORIES) : CLAUSE_CATEGORIES[k].category = c

\* the tests below take the lower-cased text of a section
HasRequiredPhrase(c, lower) ==
  \E p \in SetOf(Rules(c).required_phrases) : Contains(p, lower)

DistinctKeywords(c, lower) ==
  Cardinality({kw \in SetOf(Rules(c).keywords) : Contains(kw, lower)})

HasNegativeKeyword(c, lower) ==
  \E nk \in SetOf(Rules(c).negative_keywords) : Contains(nk, lower)

\* the sections among S that must yield a clause of category c, in text order
Yielding(S, c) ==
  LET Yields(e) == /\ Len(e.section) >= 100
                   /\ HasRequiredPhrase(c, e.lower)
                   /\ DistinctKeywords(c, e.lower) >= 2
  IN  SelectSeq(S, Yields)

\* the clauses of category c, in list order
ClausesIn(c) ==
  LET In(k) == k.clause_category = c
  IN  SelectSeq(clauses, In)

\* the category weights as the specification lists them
ClaimWeights ==
  [ data_portability |-> 15, pricing_terms |-> 25, support_obligations |-> 15,
    termination_exit |-> 20, service_level |-> 25 ]

Scored ==
  step = "scored"

\* find_clauses has returned
Found ==
  step = "found"

\* C1: every category score lies between 0 and the weight of the category,
\* whatever the risk levels and mechanism labels of the clauses are.
CategoryScoreWithinWeight ==
  Scored =>
    \A c \in DOMAIN ClaimWeights :
      /\ 0 <= report[1].category_scores[c]
      /\ report[1].category_scores[c] <= 100 * ClaimWeights[c]

\* C1 witness: a clause with a label outside the multiplier table was scored
\* and some category reached its full weight
CategoryScoreWithinWeightWitness ==
  /\ Scored
  /\ \E k \in 1..Len(clauses) : clauses[k].lock_in_mechanism \notin DOMAIN LOCK_IN_MULTIPLIERS
  /\ \E c \in DOMAIN ClaimWeights : report[1].category_scores[c] = 100 * ClaimWeights[c]

\* C2: a category is flagged missing_coverage exactly when the list has no
\* clause of it, and then its clause_count is 0 and its score is half its
\* weight: 7.5, 12.5, 7.5, 10, 12.5.
MissingCoverageIsHalfWeight ==
  Scored =>
    \A c \in DOMAIN ClaimWeights :
      LET d == report[1].category_details[c]
          half == [ data_portability |-> 750, pricing_terms |-> 1250,
                    support_obligations |-> 750, termination_exit |-> 1000,
                    service_level |-> 1250 ]
      IN  /\ d.missing_coverage <=> (\A k \in 1..Len(clauses) : clauses[k].clause_category # c)
          /\ d.missing_coverage =>
               /\ d.clause_count = 0
               /\ d.score = half[c]
               /\ report[1].category_scores[c] = half[c]

\* C2 witness: service_level and pricing_terms have no clause and score 12.5
\* each, while another category has clauses
MissingCoverageIsHalfWeightWitness ==
  /\ Scored
  /\ report[1].category_details["service_level"].missing_coverage
  /\ report[1].category_details["pricing_terms"].missing_coverage
  /\ report[1].category_scores["service_level"] = 1250
  /\ report[1].category_scores["pricing_terms"] = 1250
  /\ \E c \in DOMAIN ClaimWeights : ~report[1].category_details[c].missing_coverage

\* C3: the total score lies between 0 and 100 and is the sum of the five
\* category scores of the report.
TotalIsSumOfCategoryScores ==
  Scored =>
    /\ 0 <= report[1].total_score
    /\ report[1].total_score <= 10000
    /\ report[1].total_score =
         report[1].category_scores["data_portability"]
           + report[1].category_scores["pricing_terms"]
           + report[1].category_scores["support_obligations"]
           + report[1].category_scores["termination_exit"]
           + report[1].category_scores["service_level"]

\* C3 witness: a list with clauses in two categories was scored, none of the
\* two at the score of a missing category
TotalIsSumOfCategoryScoresWitness ==
  /\ Scored
  /\ Cardinality({c \in DOMAIN ClaimWeights :
                    /\ ~report[1].category_details[c].missing_coverage
                    /\ report[1].category_scores[c] # 50 * ClaimWeights[c]}) = 2

\* C4: the tier follows the closed boundaries: a total of at most 33 is LOW,
\* a total above 33 and at most 66 is MEDIUM, a total above 66 is HIGH.
TierByClosedBoundaries ==
  Scored =>
    /\ report[1].total_score <= 3300 => report[1].risk_level = "LOW"
    /\ (3300 < report[1].total_score /\ report[1].total_score <= 6600)
         => report[1].risk_level = "MEDIUM"
    /\ report[1].total_score > 6600 => report[1].risk_level = "HIGH"

\* C5: every clause of category c comes from a section of at least 100
\* characters that contains a required phrase and at least 2 distinct
\* keywords of c; sections without a required phrase of c add no clause of c.
ClauseNeedsPhraseAndKeywords ==
  Found =>
    LET S == SectionsOf(text)
    IN  /\ \A k \in 1..Len(clauses) :
             \E j \in 1..Len(S) :
               /\ Prefix(S[j].section, 500) = clauses[k].clause_text
               /\ Len(S[j].section) >= 100
               /\ HasRequiredPhrase(clauses[k].clause_category, S[j].lower)
               /\ DistinctKeywords(clauses[k].clause_category, S[j].lower) >= 2
        /\ \A c \in RuleCategories :
             Len(ClausesIn(c)) <=
               Cardinality({j \in 1..Len(S) : HasRequiredPhrase(c, S[j].lower)})

\* C5 witness: clauses were found in a text that has a section with two
\* keywords of a category and no required phrase of it
ClauseNeedsPhraseAndKeywordsWitness ==
  /\ Found
  /\ Len(clauses) > 0
  /\ LET S == SectionsOf(text)
     IN  \E c \in RuleCategories : \E j \in 1..Len(S) :
           /\ DistinctKeywords(c, S[j].lower) >= 2
           /\ ~HasRequiredPhrase(c, S[j].lower)
           /\ ClausesIn(c) = << >>

\* C6: a clause is High exactly when its section contains a negative keyword
\* of its category, and Medium otherwise, whatever its keyword count is.
RiskLevelFollowsNegativeKeyword ==
  Found =>
    LET S == SectionsOf(text)
    IN  \A c \in RuleCategories :
          LET Y == Yielding(S, c)
          IN  /\ Len(ClausesIn(c)) = Len(Y)
              /\ \A i \in 1..Len(Y) :
                   ClausesIn(c)[i].risk_level =
                     IF HasNegativeKeyword(c, Y[i].lower) THEN "High" ELSE "Medium"

\* C6 witness: a Medium clause with more than 2 keyword matches and a High
\* clause with exactly 2
RiskLevelFollowsNegativeKeywordWitness ==
  /\ Found
  /\ \E k \in 1..Len(clauses) :
       clauses[k].risk_level = "Medium" /\ clauses[k].keyword_matches > 2
  /\ \E k \in 1..Len(clauses) :
       clauses[k].risk_level = "High" /\ clauses[k].keyword_matches = 2

ClauseIdsSequential ==
  Found =>
    /\ \A i \in 1..Len(clauses) :
         clauses[i].clause_id = vendor_name \o "_" \o ToString(i)
    /\ \A i, j \in 1..Len(clauses) :
         /\ i # j => clauses[i].clause_id # clauses[j].clause_id
         /\ i < j => RulePosition(clauses[i].clause_category)
                       <= RulePosition(clauses[j].clause_category)
    /\ LET S == SectionsOf(text)
       IN  \A c \in RuleCategories :
             LET Y == Yielding(S, c)
             IN  [i \in 1..Len(ClausesIn(c)) |-> ClausesIn(c)[i].clause_text]
                   = [i \in 1..Len(Y) |-> Prefix(Y[i].section, 500)]

\* C8 witness: two clauses of one category from two different sections, and
\* clauses of another category
ClauseIdsSequentialWitness ==
  /\ Found
  /\ \E c \in RuleCategories :
       /\ Len(ClausesIn(c)) >= 2
       /\ ClausesIn(c)[1].clause_text # ClausesIn(c)[2].clause_text
  /\ Cardinality({clauses[k].clause_category : k \in 1..Len(clauses)}) >= 2

\* C9: the label is the first mechanism of the category, in table order,
\* with a pattern in the text, and "standard" when there is none or the
\* category has no table.
MechanismIsFirstMatch ==
  mechanism # << >> =>
    LET m == mechanism[1]
        tables == {k \in 1..Len(LOCK_IN_PATTERNS) : LOCK_IN_PATTERNS[k].category = m.category}
    IN  IF tables = {} THEN m.result = "standard"
        ELSE LET mechs == LOCK_IN_PATTERNS[CHOOSE k \in tables : TRUE].mechanisms
                 hits  == {i \in 1..Len(mechs) :
                             \E p \in SetOf(mechs[i].patterns) : Contains(p, m.text)}
             IN  /\ hits = {} => m.result = "standard"
                 /\ hits # {} => m.result = mechs[Min(hits)].mechanism
                 /\ m.result \in {mechs[i].mechanism : i \in 1..Len(mechs)} \cup {"standard"}

\* C9 witness: patterns of two mechanisms of the category are in the text,
\* the later one standing first in the text
MechanismIsFirstMatchWitness ==
  /\ mechanism # << >>
  /\ mechanism[1].category = "service_level"
  /\ mechanism[1].text = "exclusive remedy, no liability"
  /\ mechanism[1].result = "no_compensation"

\* the penalty of a clause, in two-hundredths
ClaimPenalty(clause) ==
  IF clause.risk_level = "High"
  THEN 2 * (IF clause.lock_in_mechanism \in DOMAIN LOCK_IN_MULTIPLIERS
            THEN LOCK_IN_MULTIPLIERS[clause.lock_in_mechanism] ELSE 50)
  ELSE (IF clause.lock_in_mechanism \in DOMAIN LOCK_IN_MULTIPLIERS
        THEN LOCK_IN_MULTIPLIERS[clause.lock_in_mechanism] ELSE 30)

RECURSIVE ClaimPenaltySum(_)
ClaimPenaltySum(cl) ==
  IF cl = << >> THEN 0 ELSE ClaimPenalty(Head(cl)) + ClaimPenaltySum(Tail(cl))

\* C10: the score of a category with n >= 1 clauses is weight x (sum of the
\* penalties) / n rounded to 2 decimals; one Medium "standard" clause in each
\* category gives weight x 0.15 each, 15 in total and the tier LOW.
ScoreIsWeightedAveragePenalty ==
  Scored =>
    /\ \A c \in DOMAIN ClaimWeights :
         LET n == Len(ClausesIn(c))
             x == ClaimWeights[c] * ClaimPenaltySum(ClausesIn(c))
         IN  n >= 1 =>
               /\ 2 * n * report[1].category_scores[c] - x <= n
               /\ x - 2 * n * report[1].category_scores[c] <= n
    /\ (\A c \in DOMAIN ClaimWeights :
          /\ Len(ClausesIn(c)) = 1
          /\ ClausesIn(c)[1].risk_level = "Medium"
          /\ ClausesIn(c)[1].lock_in_mechanism = "standard")
       => /\ \A c \in DOMAIN ClaimWeights :
               report[1].category_scores[c] = 15 * ClaimWeights[c]
          /\ report[1].total_score = 1500
          /\ report[1].risk_level = "LOW"

\* C10 witness: one Medium "standard" clause in each category, scored 15
ScoreIsWeightedAveragePenaltyWitness ==
  /\ Scored
  /\ Len(clauses) = 5
  /\ \A k \in 1..5 : clauses[k].risk_level = "Medium" /\ clauses[k].lock_in_mechanism = "standard"
  /\ report[1].total_score = 1500

\* the kind of an issue: "a" missing coverage, "b" high-risk percentage,
\* "c" category score, "d" mechanism of a clause
IssueKind(i) ==
  IF i.impact = "Critical contractual gap - no protection in this area" THEN "a"
  ELSE IF i.impact = "Significant lock-in risk in this category" THEN "b"
  ELSE IF i.impact = "Above-average risk in this area" THEN "c"
  ELSE IF i.impact = "Critical lock-in mechanism identified" THEN "d"
  ELSE "none"

\* the kinds of the category-level issues of category c, in list order
CategoryKinds(c) ==
  LET Of(i) == i.category = c /\ IssueKind(i) # "d"
      is == SelectSeq(report[1].critical_issues, Of)
  IN  [k \in 1..Len(is) |-> <<IssueKind(is[k]), is[k].severity>>]

\* C11: a category has at most one category-level issue: the missing-coverage
\* issue if missing_coverage is true, otherwise the high-risk-percentage issue
\* if high_risk_percentage >= 70, otherwise the score issue of severity MEDIUM
\* if score >= 0.7 x max_points, otherwise none.
OneCategoryIssuePerCategory ==
  Scored =>
    \A c \in DOMAIN ClaimWeights :
      LET d == report[1].category_details[c]
      IN  CategoryKinds(c) =
            IF d.missing_coverage THEN << <<"a", "HIGH">> >>
            ELSE IF d.high_risk_percentage >= 700 THEN << <<"b", "HIGH">> >>
            ELSE IF 10 * d.score >= 7 * 100 * ClaimWeights[c] THEN << <<"c", "MEDIUM">> >>
            ELSE << >>

\* C11 witness: a category with clauses, less than 70% of them high-risk, and
\* a score of at least 0.7 x its weight has the score issue, and the
\* categories without clauses have the missing-coverage issue
OneCategoryIssuePerCategoryWitness ==
  /\ Scored
  /\ \E c \in DOMAIN ClaimWeights :
       /\ ~report[1].category_details[c].missing_coverage
       /\ report[1].category_details[c].high_risk_percentage = 500
       /\ CategoryKinds(c) = << <<"c", "MEDIUM">> >>
  /\ \E c \in DOMAIN ClaimWeights : CategoryKinds(c) = << <<"a", "HIGH">> >>

\* C12: in the list of critical issues no issue stands before an issue of an
\* earlier kind: missing coverage, then high-risk percentage, then category
\* score, then the mechanisms of the clauses.
IssuesInKindOrder ==
  Scored =>
    LET is == report[1].critical_issues
        Rank(i) == CASE IssueKind(i) = "a" -> 1
                     [] IssueKind(i) = "b" -> 2
                     [] IssueKind(i) = "c" -> 3
                     [] OTHER -> 4
    IN  \A j, k \in 1..Len(is) : j < k => Rank(is[j]) <= Rank(is[k])

\* the issue text of a critical mechanism
ClaimMechanismIssue ==
  [ no_compensation    |-> "Contains no compensation clause",
    unilateral_pricing |-> "Contains unilateral pricing clause",
    data_restriction   |-> "Contains data restriction clause",
    no_sla             |-> "Contains no sla clause" ]

\* C13: the clause-level issues are, in clause order, one issue for each
\* clause with a critical mechanism, carrying the category of the clause,
\* whether or not the category has a category-level issue.
OneIssuePerCriticalClause ==
  Scored =>
    LET IsD(i) == IssueKind(i) = "d"
        Critical(k) == k.lock_in_mechanism \in DOMAIN ClaimMechanismIssue
        ds == SelectSeq(report[1].critical_issues, IsD)
        cs == SelectSeq(clauses, Critical)
    IN  /\ Len(ds) = Len(cs)
        /\ \A k \in 1..Len(ds) :
             /\ ds[k].category = cs[k].clause_category
             /\ ds[k].issue = ClaimMechanismIssue[cs[k].lock_in_mechanism]
             /\ ds[k].severity = "HIGH"

\* C13 witness: two no_sla clauses of one category, all of them high-risk:
\* the category has its percentage issue and each clause its own issue
OneIssuePerCriticalClauseWitness ==
  /\ Scored
  /\ Len(clauses) = 2
  /\ clauses[1].clause_category = "service_level"
  /\ clauses[2].clause_category = "service_level"
  /\ clauses[1].lock_in_mechanism = "no_sla"
  /\ clauses[2].lock_in_mechanism = "no_sla"
  /\ CategoryKinds("service_level") = << <<"b", "HIGH">> >>
  /\ Len(report[1].critical_issues) = 7

\* the last entry of contract_files that was attempted is a path
LastIsPath ==
  /\ attempted # << >>
  /\ attempted[Len(attempted)] # << >>

\* C14: assess_contract_file returns a result with an error string and
\* without total_score and risk_level when the cleaned text of the file has
\* fewer than 1000 characters or no section of it yields a clause; otherwise
\* it returns an assessment with total_score, risk_level, category_scores,
\* category_details, critical_issues and clauses and without an error.
ErrorResultOrAssessment ==
  LastIsPath =>
    LET r   == assessments[Len(assessments)]
        txt == ExtractTextFromHtml(fs, attempted[Len(attempted)][1])
        S   == SectionsOf(txt)
    IN  IF Len(txt) < 1000 \/ \A c \in RuleCategories : Yielding(S, c) = << >>
        THEN /\ "error" \in DOMAIN r
             /\ r.error = "No clauses could be extracted from contract"
             /\ {"total_score", "risk_level"} \cap DOMAIN r = {}
        ELSE /\ {"total_score", "risk_level", "category_scores", "category_details",
                 "critical_issues", "clauses"} \subseteq DOMAIN r
             /\ "error" \notin DOMAIN r

\* C14 witness: a file of 999 characters that has a clause-bearing section
\* gave an error result, after a file of 1000 characters gave an assessment
ErrorResultOrAssessmentWitness ==
  /\ Len(attempted) = 2
  /\ attempted[1] # << >>
  /\ attempted[2] # << >>
  /\ Len(ExtractTextFromHtml(fs, attempted[1][1])) = 1000
  /\ Len(ExtractTextFromHtml(fs, attempted[2][1])) = 999
  /\ "total_score" \in DOMAIN assessments[1]
  /\ "error" \in DOMAIN assessments[2]

\* the entries among the first n of contract_files that are paths
RECURSIVE PathsAmong(_)
PathsAmong(entries) ==
  IF entries = << >> THEN << >>
  ELSE (IF Head(entries) = << >> THEN << >> ELSE <<Head(entries)[1]>>) \o PathsAmong(Tail(entries))

\* the entries attempted so far are the first entries of contract_files, in
\* list order, and the list built so far has, in that order, one result for
\* each of them that is a path
AttemptedInOrder ==
  /\ Len(attempted) <= Len(contract_files)
  /\ attempted = SubSeq(contract_files, 1, Len(attempted))
  /\ LET ps == PathsAmong(attempted)
     IN  /\ Len(assessments) = Len(ps)
         /\ \A k \in 1..Len(ps) :
              IF "error" \in DOMAIN assessments[k]
              THEN assessments[k].file_path = ps[k]
              ELSE assessments[k].contract_file = PathName(ps[k])

\* C15: assess_multiple_contracts hands the entries of contract_files to
\* assess_contract_file one by one in list order, each once; whatever an
\* entry gave (an assessment, an error result or an exception) the call goes
\* on to the next and ends only by returning after the last; the list it
\* builds has, in list order, one result for each entry whose assessment
\* did not raise.
BatchAttemptsEveryFile ==
  /\ AttemptedInOrder
  /\ step \in {"batch", "returned"}
  /\ step = "returned" => attempted = contract_files

\* C15 witness: the first entry raised, the second gave an error result,
\* both were attempted and the list with the one result was returned
BatchAttemptsEveryFileWitness ==
  /\ step = "returned"
  /\ Len(contract_files) = 2
  /\ attempted = contract_files
  /\ attempted[1] = << >>
  /\ Len(assessments) = 1
  /\ "error" \in DOMAIN assessments[1]
\* the responses assess_upload gives to a request that is handled alone,
\* with no file in UPLOAD_FOLDER
UploadAlone(files) ==
  IF UploadRejection(files) # << >> THEN {UploadRejection(files)[1]}
  ELSE LET filepath == UploadPath(files[1].filename)
           cl       == AnalyzeFile(NewAnalyzer, [p \in {filepath} |-> <<files[1].content>>], filepath)
       IN  {UploadResponse(AssessmentOf(NewScorer, filepath, cl, [c \in Categories |-> c \in up])) :
              up \in SUBSET TieCategories(NewScorer, cl)}

\* C16: whatever the interleaving of the upload requests, every request that
\* has been answered got the response it gets when it is handled alone: the
\* assessment of its own file.
UploadsIndependent ==
  \A i \in DOMAIN requests :
    requests[i].response # << >> => requests[i].response[1] \in UploadAlone(requests[i].files)

\* C17: whatever the answers, calculate_risk_from_questionnaire gives every
\* category an integer score from 0 to the weight of the category, the
\* weights being 15/25/15/20/25 as in the table of the clause-based scorer,
\* a total from 0 to 100 that is the sum of the category scores, and for
\* every category a detail record whose clause_count is 0.
QuestionnaireScoresWithinWeights ==
  questionnaire # << >> =>
    LET r == questionnaire[1]
    IN  /\ DOMAIN r.category_scores = Categories
        /\ DOMAIN r.category_details = Categories
        /\ \A k \in 1..Len(CATEGORY_WEIGHTS) :
             LET c == CATEGORY_WEIGHTS[k].category
             IN  /\ ClaimWeights[c] = CATEGORY_WEIGHTS[k].max_points
                 /\ r.category_scores[c] \in 0..ClaimWeights[c]
                 /\ r.category_details[c].score = r.category_scores[c]
                 /\ r.category_details[c].max_points = ClaimWeights[c]
                 /\ r.category_details[c].clause_count = 0
        /\ r.total_score \in 0..100
        /\ r.total_score = r.category_scores["data_portability"] + r.category_scores["pricing_terms"]
                           + r.category_scores["support_obligations"]
                           + r.category_scores["termination_exit"] + r.category_scores["service_level"]

\* C17 witness: a questionnaire with the worst answer to every question was
\* scored: three categories are at their weight and the total is 95
QuestionnaireScoresWithinWeightsWitness ==
  /\ questionnaire # << >>
  /\ questionnaire[1].category_scores["data_portability"] = 15
  /\ questionnaire[1].category_scores["pricing_terms"] = 25
  /\ questionnaire[1].category_scores["termination_exit"] = 20
  /\ questionnaire[1].total_score = 95
  /\ questionnaire[1].risk_level = "HIGH"

\* the pieces of the primary split, trimmed, and of the fallback split
PrimaryPieces ==
  MapStrip(ReSplit(text, 1))

FallbackPieces ==
  SplitLines(text, 1)

\* a piece of at least 100 characters
AtLeastMinSectionLen(s) ==
  Len(s) >= MinSectionLen

\* C18: the sections returned are exactly the pieces of at least 100
\* characters, of the primary split after trimming or of the fallback split:
\* no section is shorter than 100 characters and a piece of exactly 100
\* characters is a section.
SectionsAreThePiecesOfAtLeast100 ==
  sections # << >> =>
    \/ sections[1] = SelectSeq(PrimaryPieces, AtLeastMinSectionLen)
    \/ sections[1] = SelectSeq(FallbackPieces, AtLeastMinSectionLen)

\* a piece the length filter of _split_into_sections lets through
PassesFilter(s) ==
  Len(s) > SectionFilterLen

\* C19: when at least 5 pieces of the primary split pass the length filter
\* the result is those pieces in text order; when fewer than 5 do, the result
\* is the pieces of the split on single newlines that pass the filter, in
\* text order, and nothing of the primary result.
FallbackBelowFiveSections ==
  sections # << >> =>
    LET primary == SelectSeq(PrimaryPieces, PassesFilter)
    IN  IF Len(primary) >= 5
        THEN sections[1] = primary
        ELSE sections[1] = SelectSeq(FallbackPieces, PassesFilter)

\* C19 witness: four of the five pieces of a text with numbered sections
\* passed the filter in the primary split; the result is the five lines of
\* the text, of which the later four, beginning with the section number,
\* are none of the primary pieces
FallbackBelowFiveSectionsWitness ==
  /\ sections # << >>
  /\ Len(SelectSeq(PrimaryPieces, PassesFilter)) = 4
  /\ Len(sections[1]) = 5
  /\ \A k \in 2..5 : \A j \in 1..4 : sections[1][k] # SelectSeq(PrimaryPieces, PassesFilter)[j]

\* C20: no call of find_clauses or score_contract changes a configuration
\* table (the categories with their keywords, negative keywords and required
\* phrases, the mechanism patterns, the weights, the multipliers, the
\* thresholds), and a call of score_contract leaves the clause list it is
\* given, and every clause record in it, as it was.
ScoringHasNoSideEffects ==
  [][/\ analyzer' = analyzer
     /\ scorer' = scorer
     /\ (step = "found" /\ step' = "scored") => clauses' = clauses]_vars

\* C20 witness: three contracts with clauses have been analysed and scored
\* and the tables are those of the construction
ScoringHasNoSideEffectsWitness ==
  /\ Scored
  /\ runs = 3
  /\ clauses # << >>
  /\ analyzer = NewAnalyzer
  /\ scorer = NewScorer

\* the (category, section) pairs of S that qualify: the section has at least
\* 100 characters, a required phrase and 2 keywords of the category
QualifyingPairs(S) ==
  {p \in RuleCategories \X (1..Len(S)) :
     /\ Len(S[p[2]].section) >= 100
     /\ HasRequiredPhrase(p[1], S[p[2]].lower)
     /\ DistinctKeywords(p[1], S[p[2]].lower) >= 2}

\* C21: the categories are evaluated independently: the clauses of a
\* category are, in text order, one for each section that qualifies for it,
\* whatever the section yields for other categories; the number of clauses
\* is the number of qualifying (category, section) pairs and at most 5 x the
\* number of sections.
ClausesAreTheQualifyingPairs ==
  Found =>
    LET S == SectionsOf(text)
        Q == QualifyingPairs(S)
    IN  /\ \A c \in RuleCategories :
             LET js == {j \in 1..Len(S) : <<c, j>> \in Q}
                 cs == ClausesIn(c)
             IN  /\ Len(cs) = Cardinality(js)
                 /\ \A k \in 1..Len(cs) :
                      \E j \in js :
                        /\ Cardinality({i \in js : i <= j}) = k
                        /\ cs[k].clause_text = Prefix(S[j].section, 500)
        /\ \A k \in 1..Len(clauses) : clauses[k].clause_category \in RuleCategories
        /\ Len(clauses) = Cardinality(Q)
        /\ Len(clauses) <= 5 * Len(S)

\* C21 witness: a text of two sections of which one qualifies for all five
\* categories and the other for one only: six clauses
ClausesAreTheQualifyingPairsWitness ==
  /\ Found
  /\ Len(SectionsOf(text)) = 2
  /\ Len(clauses) = 6
  /\ \E k \in 1..Len(clauses) : \A c \in RuleCategories :
       \E m \in 1..Len(clauses) :
         /\ clauses[m].clause_category = c
         /\ clauses[m].clause_text = clauses[k].clause_text

\* C22: for every total the questionnaire path produces, the tier it assigns
\* (LOW up to 33, MEDIUM up to 66, HIGH above) is the tier
\* calculate_total_score assigns to category scores with the same total.
QuestionnaireTierIsAggregatorTier ==
  questionnaire # << >> =>
    LET r == questionnaire[1]
        aggregated == CalculateTotalScore(scorer, [c \in Categories |-> 100 * r.category_scores[c]])
    IN  /\ aggregated.total_score = 100 * r.total_score
        /\ r.risk_level = aggregated.risk_level
        /\ r.risk_level = IF r.total_score <= 33 THEN "LOW"
                          ELSE IF r.total_score <= 66 THEN "MEDIUM"
                          ELSE "HIGH"

\* C22 witness: a questionnaire was scored 33, 34, 66 or 67, with the tier
\* of the boundary it is at
QuestionnaireTierIsAggregatorTierWitness ==
  /\ questionnaire # << >>
  /\ <<questionnaire[1].total_score, questionnaire[1].risk_level>>
       \in {<<33, "LOW">>, <<34, "MEDIUM">>, <<66, "MEDIUM">>, <<67, "HIGH">>}

\* the categories in the order of the weight table, as the specification
\* lists them
ClaimCategoryOrder ==
  <<"service_level", "pricing_terms", "termination_exit", "data_portability", "support_obligations">>

\* C23: in the list of critical issues every category-level issue stands
\* before every clause-level issue; the category-level issues are in the
\* category order of the weight table and the clause-level issues in the
\* order of the clauses of the input list.
CategoryIssuesThenClauseIssues ==
  Scored =>
    LET is == report[1].critical_issues
        Position(c) == CHOOSE p \in 1..Len(ClaimCategoryOrder) : ClaimCategoryOrder[p] = c
        Critical(k) == k.lock_in_mechanism \in DOMAIN ClaimMechanismIssue
        cs == SelectSeq(clauses, Critical)
        n  == Len(is) - Len(cs)
    IN  /\ n >= 0
        /\ \A j \in 1..Len(is) : (IssueKind(is[j]) = "d") <=> (j > n)
        /\ \A j \in 1..n : is[j].category \in SetOf(ClaimCategoryOrder)
        /\ \A j, k \in 1..n : j < k => Position(is[j].category) < Position(is[k].category)
        /\ \A k \in 1..Len(cs) :
             /\ is[n + k].category = cs[k].clause_category
             /\ is[n + k].issue = ClaimMechanismIssue[cs[k].lock_in_mechanism]

\* C23 witness: a data_portability clause and then a service_level clause,
\* both with a critical mechanism: the five category-level issues begin with
\* service_level and the two clause-level issues with data_portability
CategoryIssuesThenClauseIssuesWitness ==
  /\ Scored
  /\ Len(clauses) = 2
  /\ clauses[1].clause_category = "data_portability"
  /\ clauses[2].clause_category = "service_level"
  /\ Len(report[1].critical_issues) = 7
  /\ report[1].critical_issues[1].category = "service_level"
  /\ report[1].critical_issues[4].category = "data_portability"
  /\ report[1].critical_issues[6].category = "data_portability"
  /\ report[1].critical_issues[7].category = "service_level"

\* what extract_text_from_html and _split_into_sections make of the files
\* of the batch
ExtractedTexts ==
  { LET txt == ExtractTextFromHtml(BatchFiles @@ ComparisonFiles, p)
    IN  [file_path |-> p, extracted |-> txt, split |-> SplitIntoSections(txt)] :
    p \in DOMAIN BatchFiles \cup DOMAIN ComparisonFiles }

\* C24: in the file pipeline the extracted text holds no line end, so a
\* text of at least 1000 characters is split into exactly one section, the
\* whole text; every assessment therefore has at most one clause for each
\* category, at most 5 clauses, and in every category a clause_count of 0
\* or 1 and a high_risk_percentage of 0 or 100 (a category without clause
\* has no such field and is read as 0, in tenths of a percent here).
FilePipelineHasOneSection ==
  /\ \A e \in ExtractedTexts :
       /\ ~Contains("\n", e.extracted)
       /\ Len(e.extracted) >= 1000 => e.split = <<e.extracted>>
  /\ \A k \in 1..Len(assessments) :
       LET a == assessments[k]
       IN  "error" \notin DOMAIN a =>
             /\ a.total_clauses = Len(a.clauses)
             /\ Len(a.clauses) \in 1..5
             /\ \A i, j \in 1..Len(a.clauses) :
                  i # j => a.clauses[i].clause_category # a.clauses[j].clause_category
             /\ \E e \in ExtractedTexts :
                  /\ PathName(e.file_path) = a.contract_file
                  /\ \A j \in 1..Len(a.clauses) : a.clauses[j].clause_text = Prefix(e.extracted, 500)
             /\ \A c \in DOMAIN ClaimWeights :
                  LET d == a.category_details[c]
                  IN  /\ d.clause_count \in {0, 1}
                      /\ d.clause_count = 1 <=> "high_risk_percentage" \in DOMAIN d
                      /\ Get(d, "high_risk_percentage", 0) \in {0, 1000}

\* C24 witness: the contract of five paragraphs, two of which qualify for
\* service_level, was assessed: five clauses, one for each category
FilePipelineHasOneSectionWitness ==
  /\ Contains("\n\n", fs["contracts/multi_terms.html"][1])
  /\ \E k \in 1..Len(assessments) :
       /\ "error" \notin DOMAIN assessments[k]
       /\ assessments[k].contract_file = "multi_terms.html"
       /\ assessments[k].total_clauses = 5
       /\ \A c \in DOMAIN ClaimWeights : assessments[k].category_details[c].clause_count = 1

\* C25: every category score is at least 0.15 x the weight of the category,
\* and 0.5 x the weight when the category has no clause; every total is at
\* least 15, so a total of 0 is never returned.  Scores are in hundredths.
ScoreAtLeastLowestPenalty ==
  Scored =>
    /\ \A c \in DOMAIN ClaimWeights :
         /\ report[1].category_scores[c] >= 15 * ClaimWeights[c]
         /\ ClausesIn(c) = << >> => report[1].category_scores[c] = 50 * ClaimWeights[c]
    /\ report[1].total_score >= 1500
    /\ report[1].total_score # 0

\* C25 witness: a list with one clause of the lowest penalty for every
\* category was scored: every category is at 0.15 x its weight, 15 in all
ScoreAtLeastLowestPenaltyWitness ==
  /\ Scored
  /\ Len(clauses) = 5
  /\ report[1].total_score = 1500
  /\ \A c \in DOMAIN ClaimWeights : report[1].category_scores[c] = 15 * ClaimWeights[c]

\* C26: the two questionnaire scorers are equivalent: for the same response
\* map calculate_risk_from_responses and calculate_risk_from_questionnaire
\* return the same five category scores, the same total_score and the same
\* risk_level.
QuestionnaireScorersAgree ==
  (questionnaire # << >> /\ risk_analysis # << >>) =>
    /\ DOMAIN risk_analysis[1].category_scores = Categories
    /\ DOMAIN questionnaire[1].category_scores = Categories
    /\ \A c \in Categories :
         risk_analysis[1].category_scores[c] = questionnaire[1].category_scores[c]
    /\ risk_analysis[1].total_score = questionnaire[1].total_score
    /\ risk_analysis[1].risk_level = questionnaire[1].risk_level

\* C26 witness: both scorers have scored answers with an automatic renewal
\* and a notice period of exactly 60 days, which scores 3 and not 5
QuestionnaireScorersAgreeWitness ==
  /\ questionnaire # << >>
  /\ risk_analysis # << >>
  /\ Lower(Get(responses, "auto_renewal", "")) = "yes"
  /\ Get(responses, "renewal_notice", "") = "60"
  /\ Get(responses, "termination_fee", "") = "no"
  /\ Get(responses, "termination_flexibility", "") = "yes"
  /\ risk_analysis[1].category_scores.termination_exit = 3
  /\ risk_analysis[1].total_score > 33

\* the number of "High" clauses of category c
HighClausesIn(c) ==
  LET High(k) == k.risk_level = "High"
  IN  Len(SelectSeq(ClausesIn(c), High))

\* C27: in an assessment of clauses that find_clauses emitted, the
\* clause_count values of the five category details sum to the number of
\* clauses, which assess_contract_file records as total_clauses, and in each
\* category high_risk_count is the number of its "High" clauses and is at
\* most clause_count.
ClauseCountsSumToTotal ==
  Scored =>
    LET d == report[1].category_details
    IN  /\ DOMAIN d = DOMAIN ClaimWeights
        /\ d.data_portability.clause_count + d.pricing_terms.clause_count
           + d.support_obligations.clause_count + d.termination_exit.clause_count
           + d.service_level.clause_count = Len(clauses)
        /\ \A c \in DOMAIN d :
             /\ d[c].high_risk_count = HighClausesIn(c)
             /\ d[c].high_risk_count <= d[c].clause_count

\* C27 witness: an assessment of more clauses than categories where one
\* category has several clauses, some of them "High" and some not
ClauseCountsSumToTotalWitness ==
  /\ Scored
  /\ Len(clauses) > 5
  /\ \E c \in DOMAIN ClaimWeights :
       /\ report[1].category_details[c].clause_count >= 2
       /\ report[1].category_details[c].high_risk_count >= 1
       /\ report[1].category_details[c].high_risk_count < report[1].category_details[c].clause_count

\* the answer to question key is there and int() raises on it
NotAnInteger(key) ==
  key \in DOMAIN responses /\ ParseInt(responses[key]) = << >>

\* the answer to question key is there and float() raises on it
NotANumber(key) ==
  key \in DOMAIN responses /\ ParseFloat(responses[key]) = << >>

\* the answer to question key is, in lower case, one of options
Answers(key, options) ==
  key \in DOMAIN responses /\ Lower(responses[key]) \in options

\* the category scores are those of base with k more for category c
ScoresAdd(scores, base, c, k) ==
  /\ DOMAIN scores = DOMAIN base
  /\ \A d \in DOMAIN base : scores[d] = base[d] + (IF d = c THEN k ELSE 0)

\* C28: numeric answers that cannot be parsed are scored by fixed rules in
\* both scorers: against the same answers with a number that adds nothing in
\* its place (30 days of price notice, 0 days of renewal notice, 100 per
\* cent of uptime), a non-integer price_notice with price_increase = yes adds
\* nothing to pricing_terms, a non-integer renewal_notice with auto_renewal =
\* yes adds 4 to termination_exit, and a non-numeric uptime_percentage with
\* sla_exists neither no nor unclear adds 10 to service_level.
UnparsableAnswersScoredByRule ==
  /\ (questionnaire # << >> /\ NotAnInteger("price_notice") /\ Answers("price_increase", {"yes"})) =>
       ScoresAdd(questionnaire[1].category_scores,
                 QuestionnaireCategoryScores([responses EXCEPT !["price_notice"] = "30"]),
                 "pricing_terms", 0)
  /\ (questionnaire # << >> /\ NotAnInteger("renewal_notice") /\ Answers("auto_renewal", {"yes"})) =>
       ScoresAdd(questionnaire[1].category_scores,
                 QuestionnaireCategoryScores([responses EXCEPT !["renewal_notice"] = "0"]),
                 "termination_exit", 4)
  /\ (questionnaire # << >> /\ NotANumber("uptime_percentage") /\ ~Answers("sla_exists", {"no", "unclear"})) =>
       ScoresAdd(questionnaire[1].category_scores,
                 QuestionnaireCategoryScores([responses EXCEPT !["uptime_percentage"] = "100"]),
                 "service_level", 10)
  /\ (risk_analysis # << >> /\ NotAnInteger("price_notice") /\ Answers("price_increase", {"yes"})) =>
       ScoresAdd(risk_analysis[1].category_scores,
                 ResponsesCategoryScores([responses EXCEPT !["price_notice"] = "30"]),
                 "pricing_terms", 0)
  /\ (risk_analysis # << >> /\ NotAnInteger("renewal_notice") /\ Answers("auto_renewal", {"yes"})) =>
       ScoresAdd(risk_analysis[1].category_scores,
                 ResponsesCategoryScores([responses EXCEPT !["renewal_notice"] = "0"]),
                 "termination_exit", 4)
  /\ (risk_analysis # << >> /\ NotANumber("uptime_percentage") /\ ~Answers("sla_exists", {"no", "unclear"})) =>
       ScoresAdd(risk_analysis[1].category_scores,
                 ResponsesCategoryScores([responses EXCEPT !["uptime_percentage"] = "100"]),
                 "service_level", 10)

\* C28 witness: both scorers have scored answers whose price notice, renewal
\* notice and uptime cannot be parsed, each with the answer that makes the
\* scorer read it: 10 for pricing_terms, 4 for termination_exit and 10 for
\* service_level
UnparsableAnswersScoredByRuleWitness ==
  /\ questionnaire # << >>
  /\ risk_analysis # << >>
  /\ NotAnInteger("price_notice") /\ Answers("price_increase", {"yes"})
  /\ NotAnInteger("renewal_notice") /\ Answers("auto_renewal", {"yes"})
  /\ NotANumber("uptime_percentage") /\ Answers("sla_exists", {"yes"})
  /\ questionnaire[1].category_scores.pricing_terms = 10
  /\ questionnaire[1].category_scores.termination_exit = 4
  /\ questionnaire[1].category_scores.service_level = 10
  /\ risk_analysis[1].total_score = questionnaire[1].total_score

\* the labels _identify_lock_in_mechanism can return for category c: the
\* mechanisms the analyzer has patterns for in c, and "standard"
LabelsOf(c) ==
  UNION { {e.mechanisms[m].mechanism : m \in 1..Len(e.mechanisms)} :
            e \in {analyzer.lock_in_patterns[k] : k \in {j \in 1..Len(analyzer.lock_in_patterns) :
                                                          analyzer.lock_in_patterns[j].category = c}} }
    \cup {"standard"}

\* the two labels the claim says have no multiplier
ClaimUnlisted ==
  {"no_api_access", "export_restriction"}

\* the score, in hundredths, of a category of weight w whose only clause has
\* risk level r and label m, as the claim has it
ClaimSingleScore(w, r, m) ==
  IF m \in ClaimUnlisted
  THEN IF r = "High" THEN 50 * w ELSE 15 * w
  ELSE IF r = "High" THEN scorer.lock_in_multipliers[m] * w
       ELSE (scorer.lock_in_multipliers[m] * w) \div 2

\* C29: of the labels the classifier can emit, exactly no_api_access and
\* export_restriction, both of data_portability only, have no entry in the
\* scorer's multiplier table; a clause with one of them is penalised 0.5 when
\* High and 0.15 when Medium, and a clause with any other label, "standard"
\* included, is penalised by its table multiplier (half of it when Medium).
\* The penalty of a clause is read off the score of a category that has no
\* other clause.
UnlistedLabelsScoredByDefault ==
  /\ UNION {LabelsOf(c) : c \in Categories} \ DOMAIN scorer.lock_in_multipliers = ClaimUnlisted
  /\ \A c \in Categories : LabelsOf(c) \cap ClaimUnlisted # {} <=> c = "data_portability"
  /\ ClaimUnlisted \subseteq LabelsOf("data_portability")
  /\ "standard" \in DOMAIN scorer.lock_in_multipliers
  /\ Scored =>
       \A c \in DOMAIN ClaimWeights :
         /\ \A k \in 1..Len(ClausesIn(c)) : ClausesIn(c)[k].lock_in_mechanism \in LabelsOf(c)
         /\ Len(ClausesIn(c)) = 1 =>
              report[1].category_scores[c]
                = ClaimSingleScore(ClaimWeights[c], ClausesIn(c)[1].risk_level,
                                   ClausesIn(c)[1].lock_in_mechanism)

\* C29 witness: a contract whose only clause is a "High" export_restriction
\* clause was scored: data_portability has 0.5 x 15 = 7.5 points
UnlistedLabelsScoredByDefaultWitness ==
  /\ Scored
  /\ Len(clauses) = 1
  /\ clauses[1].clause_category = "data_portability"
  /\ clauses[1].lock_in_mechanism = "export_restriction"
  /\ clauses[1].risk_level = "High"
  /\ report[1].category_scores.data_portability = 750

\* the positions of the results in assessments that carry no error
NonError ==
  {k \in 1..Len(assessments) : "error" \notin DOMAIN assessments[k]}

\* C30: for a non-empty list of assessment results the comparison report
\* ignores the results that carry error: total_vendors is the number of
\* results without error, the LOW, MEDIUM and HIGH counts sum to
\* total_vendors, average_score is 0 when no result is without error, and
\* best_vendors holds at most 5 results without error in non-decreasing order
\* of total_score.
ComparisonIgnoresErrors ==
  (comparison # << >> /\ assessments # << >>) =>
    LET c == comparison[1]
    IN  /\ c.total_vendors = Cardinality(NonError)
        /\ c.risk_distribution.LOW + c.risk_distribution.MEDIUM + c.risk_distribution.HIGH
             = c.total_vendors
        /\ NonError = {} => c.average_score = 0
        /\ Len(c.best_vendors) <= 5
        /\ \A i \in 1..Len(c.best_vendors) :
             c.best_vendors[i] \in {assessments[k] : k \in NonError}
        /\ \A i \in 1..Len(c.best_vendors), j \in 1..Len(c.best_vendors) :
             i < j => c.best_vendors[i].total_score <= c.best_vendors[j].total_score

\* C30 witness: the report on eight results of which one carries error and
\* seven do not, their totals out of order: two LOW, three MEDIUM, two HIGH,
\* and the five lowest totals in best_vendors
ComparisonIgnoresErrorsWitness ==
  /\ comparison # << >>
  /\ Len(assessments) = 8
  /\ Cardinality(NonError) = 7
  /\ assessments[1].total_score > assessments[2].total_score
  /\ comparison[1].total_vendors = 7
  /\ comparison[1].risk_distribution = [LOW |-> 2, MEDIUM |-> 3, HIGH |-> 2]
  /\ Len(comparison[1].best_vendors) = 5
  /\ comparison[1].best_vendors[1].total_score = 1500
  /\ comparison[1].best_vendors[5].total_score = 6575






====
